---- MODULE Spec2Model ----
(***************************************************************************)
(* AgentCaptcha: the four-stage verification protocol (app/protocol),      *)
(* the connection adapter (app/api/websocket.py) and the session store    *)
(* (app/database.py), as a state machine.                                  *)
(*                                                                         *)
(* One process per WebSocket connection.  A process takes one step per     *)
(* await of the code (a send, a receive with its deadline, a store call,   *)
(* an oracle call); the synchronous code that follows an await up to the   *)
(* next await belongs to the same step.                                    *)
(*                                                                         *)
(* Units.  Elapsed times (time.perf_counter differences) are counted in    *)
(* ticks of 10 ms.  Wall-clock timestamps of session rows are counted in   *)
(* hours, so that (timestamp % 86400) / 3600 is  timestamp % 24.           *)
(* Strings the code inspects character by character are tuples of         *)
(* characters; reject reasons are tuples of their parts (the text of an   *)
(* f-string followed by the values formatted into it).                    *)
(*                                                                         *)
(* Spec and FairSpec run the connections.  ProbeSpec calls the functions  *)
(* of the stages on their own (verify_solution, the gates of stage 2, the *)
(* evaluation of stage 3) on arguments drawn from bounded sets.            *)
(***************************************************************************)
EXTENDS Integers, Naturals, Sequences, FiniteSets, TLC

\* ------------------------------------------------------------------ bounds

\* Number of connections the server holds state for.
NSessions == 2
\* settings.decision_rounds (config.py:12, default 10, set by DECISION_ROUNDS).
decision_rounds == 2

\* ------------------------------------------------------- program constants

pow_difficulty == 4
pow_timeout_ms == 200
\* stage1_pow.py:40  deadline = settings.pow_timeout_ms / 1000.0, in ticks of 10 ms.
pow_deadline == pow_timeout_ms \div 10
\* settings.decision_timeout_s in ticks of 10 ms.
decision_timeout == 150
\* the literal 5.0 of stage 3 in ticks of 10 ms.
stage3_timeout == 500
_MIN_SESSIONS == 5
_ALGORITHM == "HS256"
_EXPIRY_S == 3600

\* Python None (never equal to a string, a reason or a number of the model).
None == <<"None">>

Procs == 1..NSessions

\* Tasks that call get_db between two close_db calls.
NTasks == 3
Tasks == 1..NTasks

\* ------------------------------------------------------------- small helpers

RECURSIVE SumSeq(_)
SumSeq(s) == IF s = <<>> THEN 0 ELSE Head(s) + SumSeq(Tail(s))

RECURSIVE SumSq(_)
SumSq(s) == IF s = <<>> THEN 0 ELSE Head(s) * Head(s) + SumSq(Tail(s))

\* len(s)*sum(t^2) - sum(t)^2  =  len(s)^2 * (population variance of s)
VarNum(s) == Len(s) * SumSq(s) - SumSeq(s) * SumSeq(s)

RECURSIVE Repeat(_, _)
Repeat(x, n) == IF n = 0 THEN <<>> ELSE <<x>> \o Repeat(x, n - 1)

\* str.startswith
StartsWith(s, prefix) ==
    /\ Len(prefix) <= Len(s)
    /\ \A i \in 1..Len(prefix) : s[i] = prefix[i]

\* d has key k (k in d)
Has(d, k) == k \in DOMAIN d

\* d with d[k] = v
Put(d, k, v) == [x \in (DOMAIN d) \cup {k} |-> IF x = k THEN v ELSE d[x]]

EmptyDict == [x \in {} |-> 0]

\* ------------------------------------------------------------ session store

\* json.dumps(session.timings): the TEXT stored in sessions.timings.
JsonDumps(timings) == [kind |-> "object", val |-> timings]

\* One row of the sessions table (database.py CREATE TABLE sessions).
SessionRow(id, agent_id, stage_reached, timestamp, timings, passed, reject_reason) ==
    [id |-> id, agent_id |-> agent_id, stage_reached |-> stage_reached,
     timestamp |-> timestamp, timings |-> JsonDumps(timings),
     passed |-> IF passed THEN 1 ELSE 0, reject_reason |-> reject_reason]

\* The agent id a returning peer passes as ?agent_id=...
KnownAgent == <<"agent-1">>

\* Rows left by earlier, finished verifications of KnownAgent, as the
\* orchestrator's terminal update writes them: a stage 1 pass in t ticks
\* followed by a timeout of decision round 1, or a stage 1 timeout after t.
PriorRow(id, ts, t) ==
    IF t < pow_deadline
    THEN SessionRow(id, KnownAgent, 1, ts,
                    ("stage1" :> t) @@ ("stage2" :> decision_timeout),
                    FALSE, <<"stage2_timeout_round", 1>>)
    ELSE SessionRow(id, KnownAgent, 0, ts, ("stage1" :> t), FALSE, <<"stage1_timeout">>)

\* The store contents a new connection can find: empty; four earlier sessions
\* of KnownAgent with steady stage 1 times; four with erratic stage 1 times.
Histories ==
    { <<>>,
      <<PriorRow(1, 100, 5), PriorRow(2, 107, 5), PriorRow(3, 114, 5), PriorRow(4, 121, 5)>>,
      <<PriorRow(1, 100, 1), PriorRow(2, 107, 20), PriorRow(3, 114, 1), PriorRow(4, 121, 20)>> }

\* time.time() at the start of verify, in hours.
NowVals == {130}

\* ------------------------------------------------------------------- state

VARIABLES
    pc,                 \* [Procs -> position of the connection's task]
    query,              \* [Procs -> the agent_id query parameter, or None]
    session,            \* [Procs -> the Session dataclass of the invocation]
    loc,                \* [Procs -> locals of verify and of the running stage]
    sent,               \* [Procs -> frames whose send call returned, in order]
    inbox,              \* [Procs -> the frame the peer has sent and the server not yet read]
    recvd,              \* [Procs -> number of frames the server has read]
    closed,             \* [Procs -> the peer has closed the channel]
    exc,                \* [Procs -> the exception that left verify and where it was raised]
    sessions,           \* the sessions table, row id = position
    challenge_history,  \* the challenge_history table, as the set of its rows
    use_mock_challenges, \* settings.use_mock_challenges (config.py:18-25)
    probe,              \* the call of a function on its own: its arguments and what it returned
    _windows,           \* RateLimitMiddleware._windows: source -> its deque of stamps
    monotonic,          \* time.monotonic(), in seconds
    returned,           \* what dispatch returned, in order: source, time, status, headers
    _db,                \* database._db: the module's connection, or None
    callers,            \* [Tasks -> where the task's get_db call is and what it returned]
    opened,             \* the connections aiosqlite.connect returned since the last close_db
    closing             \* close_db is awaiting _db.close()

vars == <<pc, query, session, loc, sent, inbox, recvd, closed, exc, sessions,
          challenge_history, use_mock_challenges, probe, _windows, monotonic, returned,
          _db, callers, opened, closing>>

\* Groups of variables, for UNCHANGED.
limiter == <<_windows, monotonic, returned>>
pool == <<_db, callers, opened, closing>>
config == <<query, use_mock_challenges, probe, limiter, pool>>
store == <<sessions, challenge_history>>
peer == <<inbox, recvd, closed>>

\* database.py:6  _db = None at import: no connection, no call under way.
NoPool ==
    /\ _db = None
    /\ callers = [t \in Tasks |-> [at |-> "idle", got |-> None]]
    /\ opened = {}
    /\ closing = FALSE

\* verifier.py:16  agent_id = agent_id or str(uuid.uuid4())
AgentIdOf(p, q) == IF q = None \/ q = <<>> THEN <<"uuid4", p>> ELSE q

\* Session(agent_id=agent_id): models/session.py defaults.
NewSession(agent_id) ==
    [agent_id |-> agent_id, nonce |-> "", stage_reached |-> 0,
     timings |-> EmptyDict, challenge_responses |-> <<>>,
     env_data |-> [kind |-> "object", val |-> EmptyDict]]

\* create_token with the agent_id entry missing from the payload.
create_token_anonymous(agent_id, stages_passed, now) ==
    [alg |-> "HS256", key |-> "jwt_secret",
     payload |-> [agent_id |-> None, verified_at |-> now, expires_in |-> _EXPIRY_S,
                  stages_passed |-> stages_passed, exp |-> now + _EXPIRY_S, iat |-> now]]

\* token.py:11-21 create_token at time `now` (seconds): the claims, signed
\* with settings.jwt_secret under HS256.
create_token(agent_id, stages_passed, now) ==
    [alg |-> "HS256", key |-> "jwt_secret",
     payload |-> [agent_id |-> agent_id, verified_at |-> now, expires_in |-> _EXPIRY_S,
                  stages_passed |-> stages_passed, exp |-> now + _EXPIRY_S, iat |-> now]]

\* decode_token that skips the expiry validation.
decode_token_ignores_exp(token, now) ==
    IF token.alg # _ALGORITHM \/ token.key # "jwt_secret"
    THEN [error |-> "invalid", claims |-> EmptyDict]
    ELSE [error |-> "", claims |-> token.payload]

\* token.py:24-26 decode_token at time `now` (seconds), as jwt.decode runs
\* it: the header must name an algorithm of algorithms=[_ALGORITHM] (a
\* string that is no three-segment token has no such header) and the
\* signature must verify under settings.jwt_secret, else InvalidTokenError;
\* only then is exp validated, ExpiredSignatureError once exp <= now. The
\* `key` of a token is the key under which its signature verifies for the
\* header and payload it carries.
decode_token(token, now) ==
    IF token.alg # _ALGORITHM \/ token.key # "jwt_secret"
    THEN [error |-> "invalid", claims |-> EmptyDict]
    ELSE IF token.payload.exp <= now
    THEN [error |-> "expired", claims |-> EmptyDict]
    ELSE [error |-> "", claims |-> token.payload]

\* token = "" (models/session.py:23)
NoToken == create_token(None, <<>>, 0)

\* VerificationResult; verdict "" while verify has produced none.
NoResult == [verdict |-> "", reason |-> <<>>, token |-> NoToken, stages_passed |-> <<>>]
Reject(reason) == [verdict |-> "REJECT", reason |-> reason, token |-> NoToken, stages_passed |-> <<>>]
AcceptResult(token, stages_passed) ==
    [verdict |-> "ACCEPT", reason |-> <<>>, token |-> token, stages_passed |-> stages_passed]

\* Locals of verify (session_id, timestamp, stages_passed, result, token) and
\* of stage2_decisions.run (round_num, challenge, prev_answer_hash).
NoLocals ==
    [session_id |-> 0, timestamp |-> 0, stages_passed |-> <<>>,
     result |-> NoResult, token |-> NoToken,
     round_num |-> 0,
     challenge |-> [kind |-> "object", has_prompt |-> FALSE, prompt |-> <<>>, options |-> <<>>,
                    correct_option |-> <<>>, round_num |-> 0, scenario |-> 0],
     prev_answer_hash |-> <<>>]

NoFrame == [kind |-> "empty"]
\* No function is called on its own while connections are served.
NoProbe == [kind |-> "none"]
NoExc == [type |-> "", at |-> ""]

\* One connection is open and at the first await of verify (verifier.py:23):
\* it is accepted, lines 16-19 have run.  The other connections are never opened.
Init ==
    /\ pc = [p \in Procs |-> IF p = 1 THEN "insert_session" ELSE "idle"]
    /\ query \in [Procs -> {KnownAgent, None}]
    /\ \A p \in Procs : pc[p] = "idle" => query[p] = None
    /\ session = [p \in Procs |-> NewSession(AgentIdOf(p, query[p]))]
    /\ \E ts \in NowVals : loc = [p \in Procs |-> [NoLocals EXCEPT !.timestamp = ts]]
    /\ sent = [p \in Procs |-> <<>>]
    /\ inbox = [p \in Procs |-> NoFrame]
    /\ recvd = [p \in Procs |-> 0]
    /\ closed = [p \in Procs |-> FALSE]
    /\ exc = [p \in Procs |-> NoExc]
    /\ sessions \in Histories
    /\ challenge_history = {}
    /\ use_mock_challenges \in BOOLEAN
    /\ probe = NoProbe
    /\ _windows = EmptyDict
    /\ monotonic = 0
    /\ returned = <<>>
    /\ NoPool

\* ---------------------------------------------------------- the transport

\* Outcomes of one ws_send call (websocket.py:17-18): the frame goes out; or
\* the peer has closed the channel and the call raises WebSocketDisconnect or
\* another error of the transport.  Once the channel is closed every send fails.
SendOutcomes(p) ==
    IF closed[p] THEN {"RuntimeError"} ELSE {"ok", "WebSocketDisconnect", "RuntimeError"}

\* Outcomes of one store call (get_db, execute, commit).
StoreOutcomes == {"ok", "OperationalError"}

\* An exception leaves verify: control is in websocket_verify's except clauses.
Raise(p, e) ==
    /\ pc' = [pc EXCEPT ![p] = "raised"]
    /\ exc' = [exc EXCEPT ![p] = [type |-> e, at |-> pc[p]]]

\* await ws_send(frame) at a place that continues at `next`; sent[p] keeps
\* the frames whose send returned.
DoSend(p, frame, next) ==
    \E o \in SendOutcomes(p) :
        IF o = "ok"
        THEN /\ sent' = [sent EXCEPT ![p] = Append(@, frame)]
             /\ pc' = [pc EXCEPT ![p] = next]
             /\ UNCHANGED <<exc, closed>>
        ELSE /\ Raise(p, o)
             /\ closed' = [closed EXCEPT ![p] = TRUE]
             /\ UNCHANGED sent

\* The places where the task awaits ws_recv under asyncio.wait_for.
RecvPcs == {"s1_recv", "s2_recv", "s3_recv"}

\* ws_recv awaited without asyncio.wait_for: no deadline.
TimeoutFires_never(p) == FALSE

\* asyncio.wait_for(ws_recv(), timeout=...) raises TimeoutError
\* (stage1_pow.py:44-45, stage2_decisions.py:56-59, stage3_environment.py:73-74):
\* the deadline expires with no frame read and the channel open.
TimeoutFires(p) == inbox[p].kind = "empty" /\ ~closed[p]

\* ws_recv returns a frame (websocket.py:20-22): one is there and it is JSON.
FrameArrived(p) == inbox[p].kind \notin {"empty", "notjson"}

\* The server reads the frame in the inbox.
TakeFrame(p) ==
    /\ inbox' = [inbox EXCEPT ![p] = NoFrame]
    /\ recvd' = [recvd EXCEPT ![p] = @ + 1]

\* ws_recv raises (websocket.py:20-22): the frame read is not JSON and
\* json.loads raises, or the peer has closed the channel and receive_text raises.
RecvRaises(p) ==
    \/ /\ inbox[p].kind = "notjson"
       /\ TakeFrame(p)
       /\ Raise(p, "JSONDecodeError")
    \/ /\ inbox[p].kind = "empty"
       /\ closed[p]
       /\ Raise(p, "WebSocketDisconnect")
       /\ UNCHANGED <<inbox, recvd>>

\* --------------------------------------------------------------- verify

\* database.py:55-71 insert_session, called at verifier.py:23-30.
InsertRow(table, agent_id, stage_reached, timestamp, timings, passed, reject_reason) ==
    Append(table, SessionRow(Len(table) + 1, agent_id, stage_reached, timestamp,
                             timings, passed, reject_reason))

\* The id of the oldest row of the table in place of the new row's.
lastrowid_first(table) == 1

\* database.py:71 cursor.lastrowid after the INSERT into `table` (the table
\* before the insert): the AUTOINCREMENT id of the new row.
lastrowid(table) == Len(table) + 1

\* verify with the failure of insert_session swallowed: no row, session_id stays unset.
InsertSession_unchecked(p) ==
    /\ pc[p] = "insert_session"
    /\ \E o \in StoreOutcomes :
         IF o = "ok"
         THEN /\ sessions' = InsertRow(sessions, session[p].agent_id, 0, loc[p].timestamp,
                                       EmptyDict, FALSE, <<"in_progress">>)
              /\ loc' = [loc EXCEPT ![p].session_id = lastrowid(sessions)]
         ELSE UNCHANGED <<sessions, loc>>
    /\ pc' = [pc EXCEPT ![p] = "s1_send"]
    /\ UNCHANGED <<config, session, sent, peer, exc, challenge_history>>

\* verifier.py:23-30
InsertSession(p) ==
    /\ pc[p] = "insert_session"
    /\ \E o \in StoreOutcomes :
         IF o = "ok"
         THEN /\ sessions' = InsertRow(sessions, session[p].agent_id, 0, loc[p].timestamp,
                                       EmptyDict, FALSE, <<"in_progress">>)
              /\ loc' = [loc EXCEPT ![p].session_id = lastrowid(sessions)]
              /\ pc' = [pc EXCEPT ![p] = "s1_send"]
              /\ UNCHANGED exc
         ELSE /\ Raise(p, o)
              /\ UNCHANGED <<sessions, loc>>
    /\ UNCHANGED <<config, session, sent, peer, challenge_history>>

\* verify with the `if result:` test after a stage left out.
AfterStage_ignores_reject(p, result, stage, next) ==
    /\ loc' = [loc EXCEPT ![p].stages_passed = Append(@, stage)]
    /\ pc' = [pc EXCEPT ![p] = next]

\* verifier.py:39-41 and its twins: what verify does with the `result` a stage
\* returned (NoResult for None).
AfterStage(p, result, stage, next) ==
    IF result.verdict = "REJECT"
    THEN /\ loc' = [loc EXCEPT ![p].result = result]
         /\ pc' = [pc EXCEPT ![p] = "reject_send"]
    ELSE /\ loc' = [loc EXCEPT ![p].stages_passed = Append(@, stage)]
         /\ pc' = [pc EXCEPT ![p] = next]

\* ---------------------------------------------------------------- stage 1

\* os.urandom(16), abstracted to the nonces the digest table below covers.
Nonces == {"n1"}

\* Solution strings a peer may send.
Solutions == {"good", "near", ""}

\* hashlib.sha256(nonce + solution.encode()).hexdigest(), its first characters.
Sha256Hex(nonce, solution) ==
    CASE solution = "good" -> <<"0", "0", "0", "0", "a", "3">>
      [] solution = "near" -> <<"0", "0", "0", "7", "3", "c">>
      [] solution = "two"  -> <<"0", "0", "c", "0", "1", "e">>
      [] solution = "one"  -> <<"0", "b", "0", "0", "0", "9">>
      [] solution = "five" -> <<"0", "0", "0", "0", "0", "f">>
      [] OTHER             -> <<"e", "3", "b", "0", "c", "4">>

\* A prefix one character longer than asked for.
_target_prefix_longer(difficulty) == Repeat("0", difficulty + 1)

\* stage1_pow.py:15-16
_target_prefix(difficulty) == Repeat("0", difficulty)

\* stage1_pow.py:19-21
verify_solution(nonce, solution, difficulty) ==
    StartsWith(Sha256Hex(nonce, solution), _target_prefix(difficulty))

\* Frames a peer may answer the pow_challenge with, after json.loads: a JSON
\* object with a string solution, with no solution, with a solution that is
\* not a string; a JSON value that is not an object.
Stage1Msgs ==
    { [kind |-> "object", has_solution |-> TRUE, is_str |-> TRUE, solution |-> sol] : sol \in Solutions }
    \cup { [kind |-> "object", has_solution |-> FALSE, is_str |-> TRUE, solution |-> ""],
           [kind |-> "object", has_solution |-> TRUE, is_str |-> FALSE, solution |-> ""],
           [kind |-> "array", has_solution |-> FALSE, is_str |-> TRUE, solution |-> ""] }

\* Elapsed ticks of a stage 1 receive that returned a frame / that timed out.
S1Elapsed == {5}
S1TimeoutElapsed == {pow_deadline}


NotJson == [kind |-> "notjson"]

\* stage1_pow.py:29-38
S1Send(p) ==
    /\ pc[p] = "s1_send"
    /\ \E n \in Nonces :
         /\ session' = [session EXCEPT ![p].nonce = n]
         /\ DoSend(p, [stage |-> 1, type |-> "pow_challenge", nonce |-> n,
                       difficulty |-> pow_difficulty, timeout_ms |-> pow_timeout_ms],
                   "s1_recv")
    /\ UNCHANGED <<config, loc, inbox, recvd, store>>

\* The timeout returned without the time waited being recorded.
Stage1Timeout_untimed(s, elapsed) ==
    [session |-> s, result |-> Reject(<<"stage1_timeout">>)]

\* stage1_pow.py:45-48: no frame within the deadline, `elapsed` after the
\* challenge was sent.
Stage1Timeout(s, elapsed) ==
    [session |-> [s EXCEPT !.timings = Put(@, "stage1", elapsed)],
     result |-> Reject(<<"stage1_timeout">>)]

\* stage1_pow.py:40-58, then verifier.py:39-41.
S1Recv(p) ==
    /\ pc[p] = "s1_recv"
    /\ \/ \* asyncio.TimeoutError
          /\ TimeoutFires(p)
          /\ \E e \in S1TimeoutElapsed :
             LET t == Stage1Timeout(session[p], e)
             IN /\ session' = [session EXCEPT ![p] = t.session]
                /\ AfterStage(p, t.result, 1, "s2_send")
          /\ UNCHANGED <<exc, inbox, recvd>>
       \/ \* a frame arrived in time
          /\ FrameArrived(p)
          /\ TakeFrame(p)
          /\ \E e \in S1Elapsed :
             LET msg == inbox[p]
                 ok == /\ msg.kind = "object" /\ msg.is_str
                       /\ verify_solution(session[p].nonce, msg.solution, pow_difficulty)
             IN /\ session' = [session EXCEPT
                      ![p].timings = Put(@, "stage1", e),
                      ![p].stage_reached = IF ok THEN 1 ELSE @]
                /\ IF msg.kind # "object" \/ ~msg.is_str
                   THEN \* msg.get / solution.encode raise AttributeError
                        /\ Raise(p, "AttributeError")
                        /\ UNCHANGED loc
                   ELSE /\ AfterStage(p,
                             IF ok THEN NoResult ELSE Reject(<<"stage1_invalid_solution">>),
                             1, "s2_send")
                        /\ UNCHANGED exc
       \/ RecvRaises(p) /\ UNCHANGED <<session, loc>>
    /\ UNCHANGED <<config, sent, closed, store>>

\* ---------------------------------------------------------------- stage 2

_CV_REJECT_THRESHOLD_num == 8
_CV_REJECT_THRESHOLD_den == 10

\* challenge_gen.py:15-88  correct_option of the entries of _STATIC_CHALLENGES.
BankCorrect == <<"A", "B", "B", "B", "A", "B", "B", "B", "B", "C", "B", "C">>

\* challenge_gen.py:106-109  len(_SCENARIOS)
NumScenarios == 10

\* challenge_gen.py:161-166 _static_challenge; prompt and options are named by
\* the bank index.
_static_challenge(round_num) ==
    LET idx == (round_num - 1) % Len(BankCorrect)
    IN  [kind |-> "object", has_prompt |-> TRUE, prompt |-> <<"bank", idx>>,
         options |-> <<"bank", idx>>,
         correct_option |-> <<BankCorrect[idx + 1]>>,
         round_num |-> round_num, scenario |-> (round_num - 1) % NumScenarios]

\* str.upper on one character.
UpperChar(c) ==
    CASE c = "a" -> "A" [] c = "b" -> "B" [] c = "c" -> "C" [] c = "d" -> "D"
      [] OTHER -> c

Upper(str) == [i \in DOMAIN str |-> UpperChar(str[i])]

IsSpace(c) == c \in {" ", "\t", "\n"}

RECURSIVE LStrip(_)
LStrip(str) == IF str # <<>> /\ IsSpace(Head(str)) THEN LStrip(Tail(str)) ELSE str

RECURSIVE RStrip(_)
RStrip(str) ==
    IF str # <<>> /\ IsSpace(str[Len(str)]) THEN RStrip(SubSeq(str, 1, Len(str) - 1)) ELSE str

\* str.strip
Strip(str) == RStrip(LStrip(str))

\* _static_validate without the upper() of the answer.
_static_validate_cased(challenge, answer) ==
    LET correct == <<Upper(Strip(challenge.correct_option))[1]>>
        stripped == Strip(answer)
    IN  StartsWith(stripped, correct)

\* challenge_gen.py:169-173; the caller passes a str answer.
_static_validate(challenge, answer) ==
    LET correct == <<Upper(Strip(challenge.correct_option))[1]>>
        stripped == Upper(Strip(answer))
    IN  StartsWith(stripped, correct)

\* Answers a peer may send, as strings.
Answers == {<<"A">>, <<" ", "b", ":">>}

\* Frames a peer may answer a decision_challenge with, after json.loads.
Stage2Msgs ==
    { [kind |-> "object", has_answer |-> TRUE, is_str |-> TRUE, answer |-> a] : a \in Answers }
    \cup { [kind |-> "object", has_answer |-> FALSE, is_str |-> TRUE, answer |-> <<>>],
           [kind |-> "object", has_answer |-> TRUE, is_str |-> FALSE, answer |-> <<>>],
           [kind |-> "array", has_answer |-> FALSE, is_str |-> TRUE, answer |-> <<>>] }

\* Elapsed ticks of a decision round that got its frame / that timed out.
S2Elapsed == {10, 120}
S2TimeoutElapsed == {decision_timeout}

\* What the remote model's reply parses to in _claude_challenge
\* (challenge_gen.py:193-208): a challenge object; an object without prompt;
\* a JSON value that is no object; or the call or the parse fails ("fallback").
ClaudeReplies(round_num) ==
    { [kind |-> "object", has_prompt |-> TRUE, prompt |-> <<"llm">>, options |-> <<"llm">>,
       correct_option |-> <<"A">>, round_num |-> round_num,
       scenario |-> (round_num - 1) % NumScenarios],
      [kind |-> "object", has_prompt |-> FALSE, prompt |-> <<"llm">>, options |-> <<"llm">>,
       correct_option |-> <<"A">>, round_num |-> round_num,
       scenario |-> (round_num - 1) % NumScenarios],
      [kind |-> "array", has_prompt |-> FALSE, prompt |-> <<"llm">>, options |-> <<"llm">>,
       correct_option |-> <<"A">>, round_num |-> round_num, scenario |-> 0] }

\* hashlib.sha256(answer.encode()).hexdigest()[:16], named by the answer it digests.
AnswerHash(answer) == <<"sha256", answer>>

\* challenge_gen.py:141-147 generate_challenge: the challenges it may return,
\* and "TypeError" where challenge["scenario"] = ... is applied to a non-object.
GenerateOutcomes(round_num) ==
    IF use_mock_challenges
    THEN {_static_challenge(round_num)}
    ELSE {_static_challenge(round_num)} \cup ClaudeReplies(round_num)


\* The round loop stepping by two.
NextRound_skips(round_num) == round_num + 2

\* stage2_decisions.py:36  for round_num in range(1, settings.decision_rounds + 1)
NextRound(round_num) == round_num + 1

\* stage2_decisions.py:36-52: one round's generate and send.
S2Send(p) ==
    /\ pc[p] = "s2_send"
    /\ LET round_num == NextRound(loc[p].round_num)
       IN \E challenge \in GenerateOutcomes(round_num) :
            IF challenge.kind # "object"
            THEN \* challenge["scenario"] = scenario raises TypeError
                 /\ Raise(p, "TypeError")
                 /\ UNCHANGED <<loc, sent, closed>>
            ELSE IF ~challenge.has_prompt
            THEN \* challenge["prompt"] raises KeyError
                 /\ Raise(p, "KeyError")
                 /\ UNCHANGED <<loc, sent, closed>>
            ELSE /\ loc' = [loc EXCEPT ![p].round_num = round_num,
                                        ![p].challenge = challenge]
                 /\ DoSend(p,
                      [stage |-> 2, type |-> "decision_challenge", round |-> round_num,
                       total_rounds |-> decision_rounds, prompt |-> challenge.prompt,
                       options |-> challenge.options,
                       prev_answer_hash |-> loc[p].prev_answer_hash,
                       mock_correct |-> IF use_mock_challenges
                                        THEN challenge.correct_option ELSE None],
                      "s2_recv")
    /\ UNCHANGED <<config, session, inbox, recvd, store>>

\* challenge_gen.py:150-154 validate_response: the verdicts it may return for
\* a str answer (the remote model's, or the static one when the call fails).
ValidateOutcomes(challenge, answer) ==
    IF use_mock_challenges
    THEN {_static_validate(challenge, answer)}
    ELSE {TRUE, FALSE, _static_validate(challenge, answer)}

\* models/challenge.py:22-27
ChallengeResponse(round_num, answer, elapsed_s, correct) ==
    [round_num |-> round_num, answer |-> answer, elapsed_s |-> elapsed_s, correct |-> correct]


Elapsed(responses) == [i \in DOMAIN responses |-> responses[i].elapsed_s]

\* The timeout of a round recorded with the time of the whole stage so far.
Stage2Timeout_total(s, round_num, elapsed) ==
    [session |-> [s EXCEPT !.timings = Put(@, "stage2",
                                           SumSeq(Elapsed(s.challenge_responses)) + elapsed)],
     result |-> Reject(<<"stage2_timeout_round", round_num>>)]

\* stage2_decisions.py:59-62: no response to round round_num within the
\* deadline; elapsed is the time since that round's challenge was sent.
Stage2Timeout(s, round_num, elapsed) ==
    [session |-> [s EXCEPT !.timings = Put(@, "stage2", elapsed)],
     result |-> Reject(<<"stage2_timeout_round", round_num>>)]

\* stage2_decisions.py:54-75: one round's receive and validation.
S2Recv(p) ==
    /\ pc[p] = "s2_recv"
    /\ \/ \* asyncio.TimeoutError
          /\ TimeoutFires(p)
          /\ \E e \in S2TimeoutElapsed :
             LET t == Stage2Timeout(session[p], loc[p].round_num, e)
             IN /\ session' = [session EXCEPT ![p] = t.session]
                /\ AfterStage(p, t.result, 2, "s3_send")
          /\ UNCHANGED <<exc, inbox, recvd>>
       \/ \* a frame arrived in time
          /\ FrameArrived(p)
          /\ TakeFrame(p)
          /\ \E e \in S2Elapsed :
             LET msg == inbox[p]
             IN IF msg.kind # "object" \/ (use_mock_challenges /\ ~msg.is_str)
                THEN \* msg.get / answer.strip raise AttributeError
                     /\ Raise(p, "AttributeError")
                     /\ UNCHANGED <<loc, session>>
                ELSE \E correct \in (IF msg.is_str
                                     THEN ValidateOutcomes(loc[p].challenge, msg.answer)
                                     ELSE {TRUE, FALSE}) :
                       /\ session' = [session EXCEPT ![p].challenge_responses =
                             Append(@, ChallengeResponse(loc[p].round_num,
                                          IF msg.is_str THEN msg.answer ELSE None, e, correct))]
                       /\ pc' = [pc EXCEPT ![p] = "s2_persist"]
                       /\ UNCHANGED <<loc, exc>>
       \/ RecvRaises(p) /\ UNCHANGED <<session, loc>>
    /\ UNCHANGED <<config, sent, closed, store>>

\* The comparison with >= in place of >.
CvExceeds_inclusive(ts, num, den) ==
    /\ SumSeq(ts) > 0
    /\ den * den * VarNum(ts) >= num * num * SumSeq(ts) * SumSeq(ts)

\* stage2_decisions.py:100-107, 112  cv > _CV_REJECT_THRESHOLD for the
\* threshold num/den.  Population statistics of the per-round elapsed times
\* as exact fractions: cv^2 = VarNum / sum^2  (0 when the mean is not positive).
CvExceeds(ts, num, den) ==
    /\ SumSeq(ts) > 0
    /\ den * den * VarNum(ts) > num * num * SumSeq(ts) * SumSeq(ts)

CvOf(ts) == IF SumSeq(ts) > 0 THEN <<"sqrt", VarNum(ts), SumSeq(ts) * SumSeq(ts)>>
            ELSE <<"sqrt", 0, 1>>

CorrectCount(responses) == Cardinality({i \in DOMAIN responses : responses[i].correct})

\* The bound rounded down to an integer before the comparison.
LowAccuracy_floor(correct_count, rounds) == correct_count < (rounds * 7) \div 10

\* stage2_decisions.py:117  correct_count < settings.decision_rounds * 0.7
LowAccuracy(correct_count, rounds) == 10 * correct_count < rounds * 7

\* The gates with the accuracy gate evaluated before the variance gate.
Stage2GatesWith_accuracy_first(s, rounds) ==
    LET timings == Elapsed(s.challenge_responses)
        cv == CvOf(timings)
        correct_count == CorrectCount(s.challenge_responses)
        t2 == Put(Put(Put(s.timings, "stage2_cv", cv), "stage2", SumSeq(timings)),
                  "stage2_mean_s", <<SumSeq(timings), Len(timings)>>)
    IN  IF LowAccuracy(correct_count, rounds)
        THEN [session |-> [s EXCEPT !.timings = t2],
              result |-> Reject(<<"stage2_low_accuracy_", correct_count, rounds>>)]
        ELSE IF CvExceeds(timings, _CV_REJECT_THRESHOLD_num, _CV_REJECT_THRESHOLD_den)
        THEN [session |-> [s EXCEPT !.timings = t2],
              result |-> Reject(<<"stage2_timing_variance_cv=", cv>>)]
        ELSE [session |-> [s EXCEPT !.timings = t2, !.stage_reached = 2],
              result |-> NoResult]

\* stage2_decisions.py:99-122: the gates after the last round, with
\* settings.decision_rounds = rounds.
Stage2GatesWith(s, rounds) ==
    LET timings == Elapsed(s.challenge_responses)
        cv == CvOf(timings)
        correct_count == CorrectCount(s.challenge_responses)
        t2 == Put(Put(Put(s.timings, "stage2_cv", cv), "stage2", SumSeq(timings)),
                  "stage2_mean_s", <<SumSeq(timings), Len(timings)>>)
    IN  IF CvExceeds(timings, _CV_REJECT_THRESHOLD_num, _CV_REJECT_THRESHOLD_den)
        THEN [session |-> [s EXCEPT !.timings = t2],
              result |-> Reject(<<"stage2_timing_variance_cv=", cv>>)]
        ELSE IF LowAccuracy(correct_count, rounds)
        THEN [session |-> [s EXCEPT !.timings = t2],
              result |-> Reject(<<"stage2_low_accuracy_", correct_count, rounds>>)]
        ELSE [session |-> [s EXCEPT !.timings = t2, !.stage_reached = 2],
              result |-> NoResult]

\* stage2_decisions.run with session.stage_reached = 2 set before the gates.
Stage2Gates_advances_early(s) ==
    LET timings == Elapsed(s.challenge_responses)
        cv == CvOf(timings)
        correct_count == CorrectCount(s.challenge_responses)
        t2 == Put(Put(Put(s.timings, "stage2_cv", cv), "stage2", SumSeq(timings)),
                  "stage2_mean_s", <<SumSeq(timings), Len(timings)>>)
        s2 == [s EXCEPT !.timings = t2, !.stage_reached = 2]
    IN  IF CvExceeds(timings, _CV_REJECT_THRESHOLD_num, _CV_REJECT_THRESHOLD_den)
        THEN [session |-> s2, result |-> Reject(<<"stage2_timing_variance_cv=", cv>>)]
        ELSE IF 10 * correct_count < decision_rounds * 7
        THEN [session |-> s2,
              result |-> Reject(<<"stage2_low_accuracy_", correct_count, decision_rounds>>)]
        ELSE [session |-> s2, result |-> NoResult]

\* stage2_decisions.py:99-122: the gates after the last round.
Stage2Gates(s) == Stage2GatesWith(s, decision_rounds)

\* database.py insert_challenge_history (called at stage2_decisions.py:80-87):
\* one row of challenge_history.
HistoryRow(session_id, round_num, challenge_text, response_text, correct, response_time_s) ==
    [session_id |-> session_id, round_num |-> round_num, challenge_text |-> challenge_text,
     response_text |-> response_text, correct |-> IF correct THEN 1 ELSE 0,
     response_time_s |-> response_time_s]


\* The loop of rounds ended one round early.
MoreRounds_short(round_num) == round_num < decision_rounds - 1

\* stage2_decisions.py:36  for round_num in range(1, settings.decision_rounds + 1):
\* another round follows round round_num.
MoreRounds(round_num) == round_num < decision_rounds

\* The round's persistence without the try/except around it.
PersistRound_propagates(table, session_id, resp, challenge, o) ==
    IF session_id = 0
    THEN [challenge_history |-> table, raised |-> ""]
    ELSE IF o = "ok"
    THEN [challenge_history |-> table \cup
              {HistoryRow(session_id, resp.round_num, challenge.prompt,
                          resp.answer, resp.correct, resp.elapsed_s)},
          raised |-> ""]
    ELSE [challenge_history |-> table, raised |-> o]

\* stage2_decisions.py:77-89: the round is persisted when verify passed a
\* session_id (0 stands for None); o is the outcome of the store call, whose
\* failure is logged and swallowed.  `raised` names the exception that leaves.
PersistRound(table, session_id, resp, challenge, o) ==
    IF session_id = 0
    THEN [challenge_history |-> table, raised |-> ""]
    ELSE IF o = "ok"
    THEN [challenge_history |-> table \cup
              {HistoryRow(session_id, resp.round_num, challenge.prompt,
                          resp.answer, resp.correct, resp.elapsed_s)},
          raised |-> ""]
    ELSE [challenge_history |-> table, raised |-> ""]

\* stage2_decisions.py:77-97 the round's persistence and bookkeeping, then
\* either the next round or stage2_decisions.py:99-122 and verifier.py:45-47:
\* the values of connection p after the step, when the store call ends with o.
AfterRound(p, o) ==
    LET resp == session[p].challenge_responses[Len(session[p].challenge_responses)]
        pr == PersistRound(challenge_history, loc[p].session_id, resp, loc[p].challenge, o)
        same == [pc |-> pc[p], session |-> session[p], loc |-> loc[p], exc |-> exc[p],
                 challenge_history |-> pr.challenge_history]
    IN  IF pr.raised # ""
        THEN [same EXCEPT !.pc = "raised", !.exc = [type |-> pr.raised, at |-> pc[p]]]
        ELSE IF resp.answer = None
        THEN \* answer.encode raises AttributeError
             [same EXCEPT !.pc = "raised", !.exc = [type |-> "AttributeError", at |-> pc[p]]]
        ELSE IF MoreRounds(loc[p].round_num)
        THEN [same EXCEPT !.pc = "s2_send",
                          !.loc.prev_answer_hash = AnswerHash(resp.answer)]
        ELSE LET g == Stage2Gates(session[p])
             IN IF g.result.verdict = "REJECT"
                THEN [same EXCEPT !.pc = "reject_send", !.session = g.session,
                                  !.loc.result = g.result,
                                  !.loc.prev_answer_hash = AnswerHash(resp.answer)]
                ELSE [same EXCEPT !.pc = "s3_send", !.session = g.session,
                                  !.loc.stages_passed = Append(@, 2),
                                  !.loc.prev_answer_hash = AnswerHash(resp.answer)]

S2Persist(p) ==
    /\ pc[p] = "s2_persist"
    /\ \E o \in StoreOutcomes :
       \E n \in {AfterRound(p, o)} :
         /\ pc' = [pc EXCEPT ![p] = n.pc]
         /\ session' = [session EXCEPT ![p] = n.session]
         /\ loc' = [loc EXCEPT ![p] = n.loc]
         /\ exc' = [exc EXCEPT ![p] = n.exc]
         /\ challenge_history' = n.challenge_history
    /\ UNCHANGED <<config, sent, peer, sessions>>

\* ---------------------------------------------------------------- stage 3

\* stage3_environment.py:8-14  list(_CHECKS.keys())
_CHECKS == <<"has_tty", "display_set", "uptime_seconds", "open_connections", "parent_process">>

\* stage3_environment.py:16
_HUMAN_SHELLS == {"bash", "zsh", "sh", "fish", "cmd", "powershell", "pwsh"}

\* JSON values of env fields are tagged with their Python type:
\* <<"bool", b>>, <<"int", n>>, <<"float", n>>, <<"str", s>>, <<"null">>.
Tag(v) == v[1]

\* isinstance(v, int): bool is a subclass of int.
IsInt(v) == Tag(v) \in {"int", "bool"}
\* isinstance(v, (int, float))
IsNumber(v) == Tag(v) \in {"int", "bool", "float"}
\* the number a numeric value compares as (True is 1, False is 0)
NumOf(v) == IF Tag(v) = "bool" THEN (IF v[2] THEN 1 ELSE 0) ELSE v[2]
\* bool(v)
Truthy(v) ==
    CASE Tag(v) = "bool" -> v[2]
      [] Tag(v) \in {"int", "float"} -> v[2] # 0
      [] Tag(v) = "str" -> v[2] # ""
      [] OTHER -> FALSE

\* env.get(key, default)
Get(env, key, default) == IF Has(env, key) THEN env[key] ELSE default

\* str.lower on the process names of the model.
Lower(str) == CASE str = "Bash" -> "bash" [] str = "ZSH" -> "zsh" [] OTHER -> str

\* _evaluate with each failed name put at the front of the list.
_evaluate_prepends(env) ==
    LET c1 == Get(env, "has_tty", <<"null">>) = <<"bool", FALSE>>
        c2 == ~Truthy(Get(env, "display_set", <<"bool", TRUE>>))
        uptime == Get(env, "uptime_seconds", <<"int", -1>>)
        c3 == IsNumber(uptime) /\ NumOf(uptime) >= 0
        conns == Get(env, "open_connections", <<"int", -1>>)
        c4 == IsInt(conns) /\ NumOf(conns) >= 0
        parent == Lower(Get(env, "parent_process", <<"str", "">>)[2])
        c5 == parent # "" /\ parent \notin _HUMAN_SHELLS
        checks == <<c1, c2, c3, c4, c5>>
        reversed == [i \in 1..5 |-> _CHECKS[6 - i]]
    IN  [passed |-> Cardinality({i \in 1..5 : checks[i]}),
         failed |-> SelectSeq(reversed, LAMBDA name :
                        \E i \in 1..5 : _CHECKS[i] = name /\ ~checks[i])]

\* stage3_environment.py:19-57 _evaluate on a dict env whose parent_process,
\* when present, is a str: (checks_passed, failed_check_names).
_evaluate(env) ==
    LET c1 == Get(env, "has_tty", <<"null">>) = <<"bool", FALSE>>
        c2 == ~Truthy(Get(env, "display_set", <<"bool", TRUE>>))
        uptime == Get(env, "uptime_seconds", <<"int", -1>>)
        c3 == IsNumber(uptime) /\ NumOf(uptime) >= 0
        conns == Get(env, "open_connections", <<"int", -1>>)
        c4 == IsInt(conns) /\ NumOf(conns) >= 0
        parent == Lower(Get(env, "parent_process", <<"str", "">>)[2])
        c5 == parent # "" /\ parent \notin _HUMAN_SHELLS
        checks == <<c1, c2, c3, c4, c5>>
    IN  [passed |-> Cardinality({i \in 1..5 : checks[i]}),
         failed |-> SelectSeq(_CHECKS, LAMBDA name :
                        \E i \in 1..5 : _CHECKS[i] = name /\ ~checks[i])]

AgentEnv ==
    ("has_tty" :> <<"bool", FALSE>>) @@ ("display_set" :> <<"bool", FALSE>>)
    @@ ("uptime_seconds" :> <<"int", 3600>>) @@ ("open_connections" :> <<"int", 5>>)
    @@ ("parent_process" :> <<"str", "python">>)

\* Envs a peer may send: the agent's; with a TTY (4 of 5); with a TTY and a
\* display (3 of 5); a human's; an empty one; one whose parent_process is a number.
Envs ==
    { AgentEnv,
      Put(AgentEnv, "has_tty", <<"bool", TRUE>>),
      Put(Put(AgentEnv, "has_tty", <<"bool", TRUE>>), "display_set", <<"bool", TRUE>>),
      ("has_tty" :> <<"bool", TRUE>>) @@ ("display_set" :> <<"bool", TRUE>>)
        @@ ("uptime_seconds" :> <<"int", 1800>>) @@ ("open_connections" :> <<"int", 2>>)
        @@ ("parent_process" :> <<"str", "zsh">>),
      EmptyDict,
      Put(AgentEnv, "parent_process", <<"int", 1>>) }

\* Frames a peer may answer the env_request with, after json.loads: an object
\* with an object env, with no env, with an env that is no object; a JSON value
\* that is no object.
Stage3Msgs ==
    { [kind |-> "object", has_env |-> TRUE, env_kind |-> "object", env |-> e] : e \in Envs }
    \cup { [kind |-> "object", has_env |-> FALSE, env_kind |-> "object", env |-> EmptyDict],
           [kind |-> "object", has_env |-> TRUE, env_kind |-> "array", env |-> EmptyDict],
           [kind |-> "array", has_env |-> FALSE, env_kind |-> "object", env |-> EmptyDict] }

S3Elapsed == {30}


\* stage3_environment.py:65-69
S3Send(p) ==
    /\ pc[p] = "s3_send"
    /\ DoSend(p, [stage |-> 3, type |-> "env_request", required_fields |-> _CHECKS], "s3_recv")
    /\ UNCHANGED <<config, session, loc, inbox, recvd, store>>

\* The stage passing only with every check scored.
TooFewChecks_strict(passed_count) == passed_count < 5

\* stage3_environment.py:85  passed_count < 4
TooFewChecks(passed_count) == passed_count < 4

\* stage3_environment.py:77-91 for a dict env that _evaluate accepts, received
\* after `elapsed`: the session and the result of the stage.
Stage3Outcome(s, env, elapsed) ==
    LET ev == _evaluate(env)
        s3 == [s EXCEPT !.timings = Put(@, "stage3", elapsed),
                        !.env_data = [kind |-> "object", val |-> env]]
    IN  IF TooFewChecks(ev.passed)
        THEN [session |-> s3, result |-> Reject(<<"stage3_env_checks_failed=", ev.failed>>)]
        ELSE [session |-> [s3 EXCEPT !.stage_reached = 3], result |-> NoResult]

\* stage3_environment.py:71-92, then verifier.py:51-53.
S3Recv(p) ==
    /\ pc[p] = "s3_recv"
    /\ \/ \* asyncio.TimeoutError
          /\ TimeoutFires(p)
          /\ AfterStage(p, Reject(<<"stage3_timeout">>), 3, "s4_fetch")
          /\ UNCHANGED <<session, exc, inbox, recvd>>
       \/ \* a frame arrived in time
          /\ FrameArrived(p)
          /\ TakeFrame(p)
          /\ \E e \in S3Elapsed :
             LET msg == inbox[p]
             IN IF msg.kind # "object"
                THEN \* msg.get raises AttributeError
                     /\ session' = [session EXCEPT ![p].timings = Put(@, "stage3", e)]
                     /\ Raise(p, "AttributeError")
                     /\ UNCHANGED loc
                ELSE IF \/ msg.env_kind # "object"
                        \/ /\ Has(msg.env, "parent_process")
                           /\ Tag(msg.env["parent_process"]) # "str"
                THEN \* env.get / parent.lower raise AttributeError in _evaluate
                     /\ session' = [session EXCEPT
                            ![p].timings = Put(@, "stage3", e),
                            ![p].env_data = [kind |-> msg.env_kind, val |-> msg.env]]
                     /\ Raise(p, "AttributeError")
                     /\ UNCHANGED loc
                ELSE LET out == Stage3Outcome(session[p], msg.env, e)
                     IN /\ session' = [session EXCEPT ![p] = out.session]
                        /\ AfterStage(p, out.result, 3, "s4_fetch")
                        /\ UNCHANGED exc
       \/ RecvRaises(p) /\ UNCHANGED <<session, loc>>
    /\ UNCHANGED <<config, sent, closed, store>>

\* ---------------------------------------------------------------- stage 4

\* ORDER BY timestamp ASC (database.py:74-81), ties in row order: the row at
\* position j goes to the position that counts the rows ordered before it.
SortByTimestamp(rows) ==
    LET Before(k, j) == \/ rows[k].timestamp < rows[j].timestamp
                        \/ rows[k].timestamp = rows[j].timestamp /\ k < j
        Place(j) == 1 + Cardinality({k \in DOMAIN rows : Before(k, j)})
    IN  [i \in 1..Len(rows) |-> rows[CHOOSE j \in DOMAIN rows : Place(j) = i]]

\* database.py:74-81 fetch_agent_sessions
fetch_agent_sessions(table, agent_id) ==
    SortByTimestamp(SelectSeq(table, LAMBDA r : r.agent_id = agent_id))

\* np.diff
Diff(xs) == [i \in 1..(Len(xs) - 1) |-> xs[i + 1] - xs[i]]

\* What a row's timings can hold besides the TEXT json.dumps wrote (kind
\* "object", numbers as values): no key at all; None; TEXT that is not JSON;
\* JSON that is an array, a string, a number, null or a boolean; and an
\* object whose stage1 is tagged with its JSON type when it is no number:
\* <<"str", "abc">>, <<"numstr", 5>> for the string "5", <<"null">>,
\* <<"list">>, <<"bool", b>>.
MalformedTimings ==
    { [kind |-> k, val |-> EmptyDict] :
        k \in {"missing", "none", "not_json", "json_array", "json_string", "json_number",
               "json_null", "json_bool"} }
    \cup { [kind |-> "object_tagged", val |-> ("stage1" :> v)] :
             v \in {<<"str", "abc">>, <<"numstr", 5>>, <<"null">>, <<"list">>,
                    <<"bool", TRUE>>} }

\* consistency.py:24-29, the exceptions the except clause does not catch:
\* json.loads(None), `"stage1" in t` for t a number, None or a boolean, and
\* float(t["stage1"]) for a null or a list all raise TypeError.
\* (JSONDecodeError and the ValueError of float("abc") are caught.)
TimingsRaises(timings) ==
    CASE timings.kind \in {"none", "json_number", "json_null", "json_bool"} -> TRUE
      [] timings.kind = "object_tagged" ->
            Has(timings.val, "stage1") /\ Tag(timings.val["stage1"]) \in {"null", "list"}
      [] OTHER -> FALSE

\* consistency.py:25-27: what one row appends to stage1_times.
Stage1Of(timings) ==
    CASE timings.kind = "object" ->
            IF Has(timings.val, "stage1") THEN <<timings.val["stage1"]>> ELSE <<>>
      [] timings.kind = "object_tagged" ->
            IF ~Has(timings.val, "stage1") THEN <<>>
            ELSE IF Tag(timings.val["stage1"]) = "numstr" THEN <<timings.val["stage1"][2]>>
            ELSE IF Tag(timings.val["stage1"]) = "bool"
            THEN <<IF timings.val["stage1"][2] THEN 1 ELSE 0>>
            ELSE <<>>
      [] OTHER -> <<>>

\* consistency.py:21-29: the stage1 timings of the rows whose timings parse
\* to an object holding "stage1".
RECURSIVE Stage1Times(_)
Stage1Times(rows) ==
    IF rows = <<>> THEN <<>>
    ELSE Stage1Of(Head(rows).timings) \o Stage1Times(Tail(rows))

\* analyze_sessions raises: past the early return of lines 14-15 the loop of
\* lines 23-29 meets a row on which it raises.
AnalyzeRaises(rows) ==
    Len(rows) > 1 /\ \E i \in DOMAIN rows : TimingsRaises(rows[i].timings)

\* The stage1 gate applied only with more than 3 timings.
Stage1Gated_four(stage1_times) == Len(stage1_times) > 3

\* consistency.py:37  len(stage1_times) >= 3
Stage1Gated(stage1_times) == Len(stage1_times) >= 3

\* The hour gate with <= in place of <.
HourGate_inclusive(hours) ==
    Len(hours) >= 10 /\ VarNum(hours) <= 9 * Len(hours) * Len(hours)

\* consistency.py:55  len(sessions) >= 10 and hour_std < 3.0, for the
\* hours of day of the sessions: hour_std^2 = VarNum / len^2.
HourGate(hours) ==
    Len(hours) >= 10 /\ VarNum(hours) < 9 * Len(hours) * Len(hours)

\* consistency.py:6-62 analyze_sessions.  Standard deviations and CVs are kept
\* as exact fractions under a square root; hours are timestamp % 24.
analyze_sessions(rows) ==
    LET timestamps == [i \in DOMAIN rows |-> rows[i].timestamp]
        intervals == Diff(timestamps)
        stage1_times == Stage1Times(rows)
        hours == [i \in DOMAIN rows |-> timestamps[i] % 24]
        stats0 == ("session_count" :> Len(rows)) @@ ("interval_cv" :> CvOf(intervals))
                  @@ ("interval_mean_s" :> <<SumSeq(intervals), Len(intervals)>>)
        stats1 == IF Stage1Gated(stage1_times)
                  THEN Put(stats0, "stage1_timing_cv", CvOf(stage1_times)) ELSE stats0
        hour_std == <<"sqrt", VarNum(hours), Len(hours) * Len(hours)>>
        stats2 == Put(stats1, "hour_std", hour_std)
    IN  IF Len(intervals) = 0
        THEN [consistent |-> TRUE, reason |-> <<"insufficient_intervals">>, stats |-> EmptyDict]
        ELSE IF Stage1Gated(stage1_times) /\ CvExceeds(stage1_times, 6, 10)
        THEN [consistent |-> FALSE,
              reason |-> <<"stage1_timing_cv=", CvOf(stage1_times), " > 0.6 (human-like variance)">>,
              stats |-> stats1]
        ELSE IF HourGate(hours)
        THEN [consistent |-> FALSE,
              reason |-> <<"hour_std=", hour_std, " < 3.0 (sessions clustered in short window)">>,
              stats |-> stats2]
        ELSE [consistent |-> TRUE, reason |-> <<"ok">>, stats |-> stats2]

S4FetchElapsed == {1}

\* Seconds between the start of verify and the minting of the token.
MintDelay == {2}


\* stage4_consistency.py:15-34: run once `history` is fetched, e ticks after
\* its start; the session as run leaves it and the result it returns.
Stage4Outcome(s, history, e) ==
    LET t1 == Put(s.timings, "stage4_fetch_s", e)
        result == analyze_sessions(history)
    IN  IF Len(history) < _MIN_SESSIONS
        THEN [session |-> [s EXCEPT !.timings = t1, !.stage_reached = 4],
              result |-> NoResult]
        ELSE IF ~result.consistent
        THEN [session |-> [s EXCEPT !.timings = Put(t1, "stage4", result)],
              result |-> Reject(<<"stage4_inconsistent: ", result.reason>>)]
        ELSE [session |-> [s EXCEPT !.timings = Put(t1, "stage4", result),
                                    !.stage_reached = 4],
              result |-> NoResult]

\* stage4_consistency.py:11-34, then verifier.py:57-61 (create_token is not awaited).
S4Run(p) ==
    /\ pc[p] = "s4_fetch"
    /\ \E o \in StoreOutcomes :
         IF o # "ok"
         THEN /\ Raise(p, o)
              /\ UNCHANGED <<session, loc>>
         ELSE \E e \in S4FetchElapsed, d \in MintDelay :
              \E history \in {fetch_agent_sessions(sessions, session[p].agent_id)} :
              IF Len(history) >= _MIN_SESSIONS /\ AnalyzeRaises(history)
              THEN /\ Raise(p, "TypeError")
                   /\ UNCHANGED <<session, loc>>
              ELSE
              \E r \in {Stage4Outcome(session[p], history, e)} :
                  /\ UNCHANGED exc
                  /\ session' = [session EXCEPT ![p] = r.session]
                  /\ IF r.result.verdict = "REJECT"
                     THEN AfterStage(p, r.result, 4, "accept_update")
                     ELSE /\ loc' = [loc EXCEPT
                                ![p].stages_passed = Append(@, 4),
                                ![p].token = create_token(session[p].agent_id,
                                                          Append(loc[p].stages_passed, 4),
                                                          loc[p].timestamp * 3600 + d)]
                          /\ pc' = [pc EXCEPT ![p] = "accept_update"]
    /\ UNCHANGED <<config, sent, peer, store>>

\* ------------------------------------------------------- terminal paths

\* _update_session with the reject_reason column left out of the UPDATE.
UpdateRow_keeps_reason(table, session_id, s, passed, reject_reason) ==
    [i \in DOMAIN table |->
        IF table[i].id = session_id
        THEN [table[i] EXCEPT !.stage_reached = s.stage_reached,
                              !.timings = JsonDumps(s.timings),
                              !.passed = IF passed THEN 1 ELSE 0]
        ELSE table[i]]

\* verifier.py:75-97 _update_session: UPDATE sessions SET ... WHERE id=?
UpdateRow(table, session_id, s, passed, reject_reason) ==
    [i \in DOMAIN table |->
        IF table[i].id = session_id
        THEN [table[i] EXCEPT !.stage_reached = s.stage_reached,
                              !.timings = JsonDumps(s.timings),
                              !.passed = IF passed THEN 1 ELSE 0,
                              !.reject_reason = reject_reason]
        ELSE table[i]]

\* _reject updating the row before it sends the result.
RejectSend_updates_first(p) ==
    /\ pc[p] = "reject_send"
    /\ sessions' = UpdateRow(sessions, loc[p].session_id, session[p],
                             FALSE, loc[p].result.reason)
    /\ DoSend(p, [type |-> "result", verdict |-> "REJECT", reason |-> loc[p].result.reason],
              "reject_update")
    /\ UNCHANGED <<config, session, loc, inbox, recvd, challenge_history>>

\* verifier.py:33
RejectSend(p) ==
    /\ pc[p] = "reject_send"
    /\ DoSend(p, [type |-> "result", verdict |-> "REJECT", reason |-> loc[p].result.reason],
              "reject_update")
    /\ UNCHANGED <<config, session, loc, inbox, recvd, store>>

\* _reject with the UPDATE keyed on the agent_id (WHERE agent_id=?).
RejectUpdate_by_agent(p) ==
    /\ pc[p] = "reject_update"
    /\ \E o \in StoreOutcomes :
         IF o = "ok"
         THEN /\ sessions' = [i \in DOMAIN sessions |->
                                IF sessions[i].agent_id = session[p].agent_id
                                THEN UpdateRow(sessions, sessions[i].id, session[p],
                                               FALSE, loc[p].result.reason)[i]
                                ELSE sessions[i]]
              /\ pc' = [pc EXCEPT ![p] = "done"]
              /\ UNCHANGED exc
         ELSE /\ Raise(p, o)
              /\ UNCHANGED sessions
    /\ UNCHANGED <<config, session, loc, sent, peer, challenge_history>>

\* verifier.py:34-35
RejectUpdate(p) ==
    /\ pc[p] = "reject_update"
    /\ \E o \in StoreOutcomes :
         IF o = "ok"
         THEN /\ sessions' = UpdateRow(sessions, loc[p].session_id, session[p],
                                       FALSE, loc[p].result.reason)
              /\ pc' = [pc EXCEPT ![p] = "done"]
              /\ UNCHANGED exc
         ELSE /\ Raise(p, o)
              /\ UNCHANGED sessions
    /\ UNCHANGED <<config, session, loc, sent, peer, challenge_history>>

\* verify with the failure of the final update swallowed (try/except around line 63).
AcceptUpdate_swallows(p) ==
    /\ pc[p] = "accept_update"
    /\ \E o \in StoreOutcomes :
         sessions' = IF o = "ok"
                     THEN UpdateRow(sessions, loc[p].session_id, session[p], TRUE, None)
                     ELSE sessions
    /\ pc' = [pc EXCEPT ![p] = "accept_send"]
    /\ UNCHANGED <<config, session, loc, sent, peer, exc, challenge_history>>

\* verifier.py:63
AcceptUpdate(p) ==
    /\ pc[p] = "accept_update"
    /\ \E o \in StoreOutcomes :
         IF o = "ok"
         THEN /\ sessions' = UpdateRow(sessions, loc[p].session_id, session[p], TRUE, None)
              /\ pc' = [pc EXCEPT ![p] = "accept_send"]
              /\ UNCHANGED exc
         ELSE /\ Raise(p, o)
              /\ UNCHANGED sessions
    /\ UNCHANGED <<config, session, loc, sent, peer, challenge_history>>

\* verifier.py:65-72
AcceptSend(p) ==
    /\ pc[p] = "accept_send"
    /\ \E o \in SendOutcomes(p) :
         IF o = "ok"
         THEN /\ sent' = [sent EXCEPT ![p] = Append(@,
                            [type |-> "result", verdict |-> "ACCEPT", token |-> loc[p].token,
                             stages_passed |-> loc[p].stages_passed])]
              /\ loc' = [loc EXCEPT ![p].result =
                            AcceptResult(loc[p].token, loc[p].stages_passed)]
              /\ pc' = [pc EXCEPT ![p] = "done"]
              /\ UNCHANGED <<exc, closed>>
         ELSE /\ Raise(p, o)
              /\ closed' = [closed EXCEPT ![p] = TRUE]
              /\ UNCHANGED <<sent, loc>>
    /\ UNCHANGED <<config, session, inbox, recvd, store>>

\* ------------------------------------------------------ connection adapter

\* websocket_verify marking the session's row when the peer disconnects.
AdapterDisconnect_finalizes(p) ==
    /\ pc[p] = "raised"
    /\ exc[p].type = "WebSocketDisconnect"
    /\ sessions' = UpdateRow(sessions, loc[p].session_id, session[p], FALSE, <<"disconnected">>)
    /\ pc' = [pc EXCEPT ![p] = "done"]
    /\ UNCHANGED <<config, session, loc, sent, peer, exc, challenge_history>>

\* websocket.py:32-33  except WebSocketDisconnect: log only.
AdapterDisconnect(p) ==
    /\ pc[p] = "raised"
    /\ exc[p].type = "WebSocketDisconnect"
    /\ pc' = [pc EXCEPT ![p] = "done"]
    /\ UNCHANGED <<config, session, loc, sent, peer, exc, store>>

\* websocket_verify with `except Exception` only logging.
AdapterError_silent(p) ==
    /\ pc[p] = "raised"
    /\ exc[p].type # "WebSocketDisconnect"
    /\ pc' = [pc EXCEPT ![p] = "done"]
    /\ UNCHANGED <<config, session, loc, sent, peer, exc, store>>

\* websocket.py:34-41  except Exception: best-effort error frame.
AdapterError(p) ==
    /\ pc[p] = "raised"
    /\ exc[p].type # "WebSocketDisconnect"
    /\ \E o \in SendOutcomes(p) :
         /\ sent' = [sent EXCEPT ![p] =
                       IF o = "ok" THEN Append(@, [type |-> "error", message |-> exc[p].type])
                       ELSE @]
         /\ closed' = [closed EXCEPT ![p] = @ \/ o # "ok"]
    /\ pc' = [pc EXCEPT ![p] = "done"]
    /\ UNCHANGED <<config, session, loc, inbox, recvd, exc, store>>

\* ------------------------------------------------------------------ the peer

\* The frames a peer may answer the outstanding challenge with.
Replies(p) ==
    {NotJson} \cup
    CASE pc[p] = "s1_recv" -> Stage1Msgs
      [] pc[p] = "s2_recv" -> Stage2Msgs
      [] pc[p] = "s3_recv" -> Stage3Msgs
      [] OTHER -> {}

\* The peer answers the frame the server is waiting on.
PeerSend(p) ==
    /\ pc[p] \in RecvPcs
    /\ inbox[p].kind = "empty"
    /\ ~closed[p]
    /\ \E msg \in Replies(p) : inbox' = [inbox EXCEPT ![p] = msg]
    /\ UNCHANGED <<config, pc, session, loc, sent, recvd, closed, exc, store>>

\* The peer closes the channel while the server is waiting for its answer.
\* (A close at any other moment shows at the next send, see SendOutcomes.)
PeerClose(p) ==
    /\ pc[p] \in RecvPcs
    /\ inbox[p].kind = "empty"
    /\ ~closed[p]
    /\ closed' = [closed EXCEPT ![p] = TRUE]
    /\ UNCHANGED <<config, pc, session, loc, sent, inbox, recvd, exc, store>>

\* ------------------------------------------------------------ specification

\* One step of the task of connection p.
ServerStep(p) ==
    \/ InsertSession(p)
    \/ S1Send(p)
    \/ S1Recv(p)
    \/ S2Send(p)
    \/ S2Recv(p)
    \/ S2Persist(p)
    \/ S3Send(p)
    \/ S3Recv(p)
    \/ S4Run(p)
    \/ RejectSend(p)
    \/ RejectUpdate(p)
    \/ AcceptUpdate(p)
    \/ AcceptSend(p)
    \/ AdapterDisconnect(p)
    \/ AdapterError(p)

Next == \E p \in Procs : ServerStep(p) \/ PeerSend(p) \/ PeerClose(p)

Spec == Init /\ [][Next]_vars

\* The event loop runs every task that can take a step: send, store and
\* oracle calls return, and a receive returns a frame, raises or times out.
\* Nothing obliges the peer to send or to close.
FairSpec == Spec /\ \A p \in Procs : WF_vars(ServerStep(p))

\* ------------------------------------------------- functions on their own

\* Largest difficulty verify_solution is called with.
MaxDifficulty == 6

\* The variables of the connections: a function called on its own leaves them alone.
served_protocol == <<pc, query, session, loc, sent, inbox, recvd, closed, exc, sessions,
                     challenge_history, use_mock_challenges>>
served == <<pc, query, session, loc, sent, inbox, recvd, closed, exc, sessions,
            challenge_history, use_mock_challenges, limiter, pool>>

\* Arguments of verify_solution(nonce, solution, difficulty): solutions whose
\* digests start with 0, 1, 2, 3, 4 and 5 zeros.
VerifySolutionArgs ==
    { [kind |-> "verify_solution", done |-> FALSE, nonce |-> n, solution |-> sol,
       difficulty |-> d, result |-> FALSE] :
      n \in Nonces, sol \in Solutions \cup {"two", "one", "five"}, d \in 0..MaxDifficulty }

\* Largest settings.decision_rounds the gates of stage 2 are called with.
MaxRounds == 4

\* Elapsed ticks of one round: <<1, 9>> has cv = 0.8 and <<0, 0>> mean 0.
GateTimes == {0, 1, 9}

\* Arguments of the gates of stage 2: the responses of `rounds` completed
\* rounds of a session that passed stage 1.
GatesArgs ==
    { [kind |-> "gates", done |-> FALSE, rounds |-> Len(rs),
       session |-> [NewSession(None) EXCEPT !.stage_reached = 1, !.challenge_responses = rs],
       result |-> NoResult] :
      rs \in UNION { { [i \in 1..R |-> ChallengeResponse(i, <<"A">>, ts[i], cs[i])] :
                         ts \in [1..R -> GateTimes], cs \in [1..R -> BOOLEAN] } :
                     R \in 1..MaxRounds } }

\* Values of the fields of an env, <<"missing">> for a field left out: each
\* check of _evaluate has values it scores and values it does not.
EnvFieldValues ==
    [has_tty : {<<"missing">>, <<"bool", FALSE>>, <<"bool", TRUE>>},
     display_set : {<<"missing">>, <<"bool", FALSE>>, <<"bool", TRUE>>},
     uptime_seconds : {<<"int", 3600>>, <<"int", -1>>},
     open_connections : {<<"int", 5>>, <<"float", 5>>},
     parent_process : {<<"str", "python">>, <<"str", "zsh">>}]

\* The dict with the fields of r that are not left out.
MakeEnv(r) ==
    LET keys == {k \in {"has_tty", "display_set", "uptime_seconds", "open_connections",
                        "parent_process"} : r[k] # <<"missing">>}
    IN  [k \in keys |-> r[k]]

\* Arguments of stage 3's evaluation: the env of a response received by a
\* session that passed stage 2.
EnvArgs ==
    { [kind |-> "env", done |-> FALSE, env |-> MakeEnv(r),
       session |-> [NewSession(None) EXCEPT !.stage_reached = 2],
       result |-> NoResult, ev |-> [passed |-> 0, failed |-> <<>>]] :
      r \in EnvFieldValues }

\* Largest number of session rows the analyzer is called with.
MaxHistory == 11

\* Timestamps (hours) of the i-th row of a history: all rows at once; one a
\* day at the same hour; one an hour; one every 7 hours; one a day,
\* alternating between two hours 6 apart (hour_std = 3 for an even number).
HistoryTimestamp(pattern, i) ==
    CASE pattern = "same"      -> 100
      [] pattern = "daily"     -> 100 + 24 * i
      [] pattern = "hourly"    -> 100 + i
      [] pattern = "spread"    -> 100 + 7 * i
      [] pattern = "alternate" -> 24 * i + 6 * (i % 2)

\* Stage 1 ticks of the i-th row: steady; erratic; alternating 2 and 8
\* (cv = 0.6 for an even number); zero.
HistoryStage1(pattern, i) ==
    CASE pattern = "steady"   -> 5
      [] pattern = "erratic"  -> IF i % 2 = 1 THEN 1 ELSE 20
      [] pattern = "boundary" -> IF i % 2 = 1 THEN 2 ELSE 8
      [] pattern = "zero"     -> 0

\* Arguments of analyze_sessions: n rows of one agent in timestamp order, the
\* first k of them with a stage1 timing, the others as pre-inserted.
AnalyzerArgs ==
    { [kind |-> "analyzer", done |-> FALSE, raised |-> "",
       rows |-> [i \in 1..n |->
                   IF i <= k
                   THEN PriorRow(i, HistoryTimestamp(tp, i), HistoryStage1(sp, i))
                   ELSE SessionRow(i, KnownAgent, 0, HistoryTimestamp(tp, i), EmptyDict,
                                   FALSE, <<"in_progress">>)],
       result |-> [consistent |-> TRUE, reason |-> <<>>, stats |-> EmptyDict]] :
      n \in 1..MaxHistory, k \in 0..4,
      tp \in {"same", "daily", "hourly", "spread", "alternate"},
      sp \in {"steady", "erratic", "boundary", "zero"} }

\* Rows of one agent every 7 hours, the first 4 with a stage1 timing, and
\* the timings of the row at `at` replaced by a malformed value.
MalformedArgs ==
    { [kind |-> "analyzer", done |-> FALSE, raised |-> "",
       rows |-> [i \in 1..n |->
                   LET row == IF i <= 4
                              THEN PriorRow(i, HistoryTimestamp("spread", i),
                                            HistoryStage1(sp, i))
                              ELSE SessionRow(i, KnownAgent, 0, HistoryTimestamp("spread", i),
                                              EmptyDict, FALSE, <<"in_progress">>)
                   IN  IF i = at THEN [row EXCEPT !.timings = t] ELSE row],
       result |-> [consistent |-> TRUE, reason |-> <<>>, stats |-> EmptyDict]] :
      n \in {1, 5, 6}, at \in {1, 5}, sp \in {"steady", "erratic"},
      t \in MalformedTimings }

\* Seconds between create_token and decode_token.
TokenAges == {0, 3599, 3600, 3601, 7200}

\* What reaches GET /verify?token=...: the token as issued, or one altered
\* on the way. "payload": the agent_id claim rewritten under the old
\* signature; "signature": the signature segment altered; "resigned":
\* signed again with a key other than jwt_secret; "algorithm": the header
\* rewritten to alg none; "malformed": "not.a.valid.token".
Presented(token, tamper) ==
    CASE tamper = "none" -> token
      [] tamper = "payload" ->
           [token EXCEPT !.payload.agent_id = <<"agent-2">>, !.key = "no key"]
      [] tamper = "signature" -> [token EXCEPT !.key = "no key"]
      [] tamper = "resigned" -> [token EXCEPT !.key = "other_secret"]
      [] tamper = "algorithm" -> [token EXCEPT !.alg = "none", !.key = "no key"]
      [] OTHER -> [token EXCEPT !.alg = "", !.key = "no key"]

TokenArgs ==
    { [kind |-> "token", done |-> FALSE, agent_id |-> a, stages_passed |-> sp,
       issued |-> t, now |-> t + age, tamper |-> tm,
       token |-> Presented(create_token(a, sp, t), tm),
       result |-> [error |-> "", claims |-> EmptyDict]] :
      a \in {KnownAgent, <<"uuid4", 1>>}, sp \in {<<1, 2, 3, 4>>, <<>>},
      t \in {0, 1700000000}, age \in TokenAges,
      tm \in {"none", "payload", "signature", "resigned", "algorithm", "malformed"} }

\* Rounds whose static challenge is validated: the bank once around.
MaxBankRound == 13

\* Answers a peer may give, as strings.
ValidateAnswers ==
    { <<>>, <<" ">>, <<"A">>, <<"a">>, <<"B">>, <<" ", "b", ":">>, <<"c">>,
      <<"\t", "C", " ">>, <<"D">>, <<"x", "A">>, <<"B", "A">>, <<":", "C">> }

\* Arguments of _static_validate: the static challenge of a round and an
\* answer, one of the above or the mock_correct of the challenge frame.
ValidateArgs ==
    { [kind |-> "validate", done |-> FALSE, round_num |-> r,
       challenge |-> _static_challenge(r), answer |-> a, result |-> FALSE] :
      r \in 1..MaxBankRound, a \in ValidateAnswers }
    \cup { [kind |-> "validate", done |-> FALSE, round_num |-> r,
             challenge |-> _static_challenge(r),
             answer |-> _static_challenge(r).correct_option, result |-> FALSE] :
           r \in 1..MaxBankRound }

ProbeArgs ==
    VerifySolutionArgs \cup GatesArgs \cup EnvArgs \cup AnalyzerArgs \cup MalformedArgs
    \cup TokenArgs \cup ValidateArgs

\* No connection is open; one function is about to be called with arguments
\* drawn from the sets above.
ProbeInit ==
    /\ pc = [p \in Procs |-> "idle"]
    /\ query = [p \in Procs |-> None]
    /\ session = [p \in Procs |-> NewSession(AgentIdOf(p, query[p]))]
    /\ loc = [p \in Procs |-> NoLocals]
    /\ sent = [p \in Procs |-> <<>>]
    /\ inbox = [p \in Procs |-> NoFrame]
    /\ recvd = [p \in Procs |-> 0]
    /\ closed = [p \in Procs |-> FALSE]
    /\ exc = [p \in Procs |-> NoExc]
    /\ sessions = <<>>
    /\ challenge_history = {}
    /\ use_mock_challenges = TRUE
    /\ probe \in ProbeArgs
    /\ _windows = EmptyDict
    /\ monotonic = 0
    /\ returned = <<>>
    /\ NoPool

\* stage1_pow.py:19-21 called.
VerifySolutionCall ==
    /\ probe.kind = "verify_solution"
    /\ ~probe.done
    /\ probe' = [probe EXCEPT !.done = TRUE,
                              !.result = verify_solution(probe.nonce, probe.solution,
                                                         probe.difficulty)]
    /\ UNCHANGED served

\* stage2_decisions.py:99-122 run on the responses collected.
GatesCall ==
    /\ probe.kind = "gates"
    /\ ~probe.done
    /\ \E g \in {Stage2GatesWith(probe.session, probe.rounds)} :
         probe' = [probe EXCEPT !.done = TRUE, !.session = g.session, !.result = g.result]
    /\ UNCHANGED served

\* stage3_environment.py:77-91 run on the env received.
EvaluateCall ==
    /\ probe.kind = "env"
    /\ ~probe.done
    /\ \E e \in S3Elapsed :
       \E out \in {Stage3Outcome(probe.session, probe.env, e)} :
         probe' = [probe EXCEPT !.done = TRUE, !.session = out.session,
                                !.result = out.result, !.ev = _evaluate(probe.env)]
    /\ UNCHANGED served

\* consistency.py:6-62 called on the rows fetched.
AnalyzerCall ==
    /\ probe.kind = "analyzer"
    /\ ~probe.done
    /\ probe' = IF AnalyzeRaises(probe.rows)
                THEN [probe EXCEPT !.done = TRUE, !.raised = "TypeError"]
                ELSE [probe EXCEPT !.done = TRUE, !.result = analyze_sessions(probe.rows)]
    /\ UNCHANGED served

\* routes.py:25 decode_token called on the token presented.
DecodeCall ==
    /\ probe.kind = "token"
    /\ ~probe.done
    /\ probe' = [probe EXCEPT !.done = TRUE,
                              !.result = decode_token(probe.token, probe.now)]
    /\ UNCHANGED served

\* stage2_decisions.py:67 validate_response with the static variant.
ValidateCall ==
    /\ probe.kind = "validate"
    /\ ~probe.done
    /\ probe' = [probe EXCEPT !.done = TRUE,
                              !.result = _static_validate(probe.challenge, probe.answer)]
    /\ UNCHANGED served

ProbeNext ==
    \/ VerifySolutionCall
    \/ GatesCall
    \/ EvaluateCall
    \/ AnalyzerCall
    \/ DecodeCall
    \/ ValidateCall

ProbeSpec == ProbeInit /\ [][ProbeNext]_vars

\* ------------------------------------------------- concurrent sessions
\* Two connections opened with the same ?agent_id run verify in one event
\* loop (main.py:37-39): their tasks interleave at every await and share the
\* sessions table.

\* The rows of agent-1 persisted before either connection was accepted.
ConcHistory == <<PriorRow(1, 100, 1), PriorRow(2, 107, 20), PriorRow(3, 114, 1)>>

\* Both connections are accepted and at the first await of verify.
ConcInit ==
    /\ pc = [p \in Procs |-> "insert_session"]
    /\ query = [p \in Procs |-> KnownAgent]
    /\ session = [p \in Procs |-> NewSession(AgentIdOf(p, query[p]))]
    /\ \E ts \in NowVals : loc = [p \in Procs |-> [NoLocals EXCEPT !.timestamp = ts]]
    /\ sent = [p \in Procs |-> <<>>]
    /\ inbox = [p \in Procs |-> NoFrame]
    /\ recvd = [p \in Procs |-> 0]
    /\ closed = [p \in Procs |-> FALSE]
    /\ exc = [p \in Procs |-> NoExc]
    /\ sessions = ConcHistory
    /\ challenge_history = {}
    /\ use_mock_challenges = TRUE
    /\ probe = NoProbe
    /\ _windows = EmptyDict
    /\ monotonic = 0
    /\ returned = <<>>
    /\ NoPool

\* Connection p is served without a failure of the channel or of the store,
\* and its peer answers as an agent does: the solution of the puzzle, the
\* correct option of each round after 10 ticks, the env of an agent.
Steady(p) ==
    /\ exc[p] = NoExc
    /\ ~closed[p]
    /\ loc[p].result.verdict = "REJECT" =>
          Head(loc[p].result.reason) = "stage4_inconsistent: "
    /\ \A i \in DOMAIN session[p].challenge_responses :
          session[p].challenge_responses[i].elapsed_s = 10
    /\ CASE inbox[p].kind = "empty" -> TRUE
         [] pc[p] = "s1_recv" -> inbox[p] \in Stage1Msgs /\ inbox[p].solution = "good"
         [] pc[p] = "s2_recv" ->
               /\ inbox[p] \in Stage2Msgs
               /\ inbox[p].has_answer /\ inbox[p].is_str
               /\ _static_validate(loc[p].challenge, inbox[p].answer)
         [] pc[p] = "s3_recv" ->
               inbox[p] = [kind |-> "object", has_env |-> TRUE, env_kind |-> "object",
                           env |-> AgentEnv]
         [] OTHER -> FALSE

\* One step of connection p or of its peer, on the steady course.
Concurrent(p) == (ServerStep(p) \/ PeerSend(p)) /\ Steady(p)'

\* Connection 1 and its peer do whatever they can do; connection 2 runs
\* beside it on the steady course, interleaved at every step.
ConcNext ==
    \/ ServerStep(1)
    \/ PeerSend(1)
    \/ PeerClose(1)
    \/ Concurrent(2)

ConcSpec == ConcInit /\ [][ConcNext]_vars

\* ------------------------------------------------------------ rate limiter
\* RateLimitMiddleware on its own: HTTP requests arrive while time passes.
\* dispatch has no await between reading the deque and appending to it
\* (rate_limit.py:30-49), so one request is one step.

\* settings.rate_limit_requests and settings.rate_limit_window_s
\* (config.py:15-16, defaults 10 and 60), set small here.
rate_limit_requests == 2
rate_limit_window_s == 2
\* The last reading of time.monotonic() and the number of requests modelled.
MaxMonotonic == 5
MaxRequests == 4

\* Requests: the X-Forwarded-For header split at commas, each entry a
\* string of characters (<<>>: no header, or an empty one), and
\* request.client.host (<<>>: request.client is None).  Hosts are a and b.
Requests ==
    { [forwarded |-> f, client |-> c] :
      f \in {<<>>, << <<"b">>, <<" ", "a">> >>, << <<" ", "a", " ">> >>},
      c \in {<<"a">>, <<>>} }

\* rate_limit.py:23-27
_get_ip(request) ==
    IF request.forwarded # <<>>
    THEN Strip(request.forwarded[1])
    ELSE IF request.client # <<>> THEN request.client ELSE <<"unknown">>

\* collections.defaultdict(deque): a missing key reads as an empty deque.
WindowOf(ip) == IF Has(_windows, ip) THEN _windows[ip] ELSE <<>>

\* The eviction loop with >= in place of >.
Evict_inclusive(dq, now, window) ==
    SelectSeq(dq, LAMBDA t : ~(now - t >= window))

\* rate_limit.py:38-39  while dq and now - dq[0] > window: dq.popleft()
\* The stamps of a deque are appended in time order, so the loop removes
\* exactly the stamps older than the window.
Evict(dq, now, window) ==
    SelectSeq(dq, LAMBDA t : ~(now - t > window))

\* rate_limit.py:29-50 dispatch(request, call_next)
Dispatch(request) ==
    /\ Len(returned) < MaxRequests
    /\ LET ip == _get_ip(request)
           now == monotonic
           window == rate_limit_window_s
           limit == rate_limit_requests
           dq == Evict(WindowOf(ip), now, window)
       IN IF Len(dq) >= limit
          THEN /\ _windows' = Put(_windows, ip, dq)
               /\ returned' = Append(returned,
                      [ip |-> ip, at |-> now, status_code |-> 429,
                       headers |-> [x \in {"Retry-After"} |-> window]])
          ELSE /\ _windows' = Put(_windows, ip, Append(dq, now))
               /\ returned' = Append(returned,
                      [ip |-> ip, at |-> now, status_code |-> 200,
                       headers |-> EmptyDict])
    /\ UNCHANGED <<monotonic, probe, served_protocol, pool>>

\* Time passes between two requests.
Tick ==
    /\ monotonic < MaxMonotonic
    /\ monotonic' = monotonic + 1
    /\ UNCHANGED <<_windows, returned, probe, served_protocol, pool>>

RateInit ==
    /\ pc = [p \in Procs |-> "idle"]
    /\ query = [p \in Procs |-> None]
    /\ session = [p \in Procs |-> NewSession(AgentIdOf(p, query[p]))]
    /\ loc = [p \in Procs |-> NoLocals]
    /\ sent = [p \in Procs |-> <<>>]
    /\ inbox = [p \in Procs |-> NoFrame]
    /\ recvd = [p \in Procs |-> 0]
    /\ closed = [p \in Procs |-> FALSE]
    /\ exc = [p \in Procs |-> NoExc]
    /\ sessions = <<>>
    /\ challenge_history = {}
    /\ use_mock_challenges = TRUE
    /\ probe = NoProbe
    /\ _windows = EmptyDict
    /\ monotonic = 0
    /\ returned = <<>>
    /\ NoPool

RateNext ==
    \/ \E request \in Requests : Dispatch(request)
    \/ Tick

RateSpec == RateInit /\ [][RateNext]_vars

\* ------------------------------------------------------------- connection

\* database.py:9-11: the call runs to its first await.  With a connection in
\* _db it returns it at once (line 15); without one it awaits
\* aiosqlite.connect (line 12).
get_db(t) ==
    /\ callers[t].at = "idle"
    /\ callers' = [callers EXCEPT ![t] =
                      IF _db = None THEN [at |-> "connect", got |-> None]
                                    ELSE [at |-> "done", got |-> _db]]
    /\ UNCHANGED <<_db, opened, closing, served_protocol, probe, limiter>>

\* database.py:12-14: aiosqlite.connect returns a new connection, which is
\* assigned to _db; the task then awaits _create_tables(_db).
connect(t) ==
    /\ callers[t].at = "connect"
    /\ LET connection == <<"connection", Cardinality(opened) + 1>>
       IN /\ _db' = connection
          /\ opened' = opened \cup {connection}
    /\ callers' = [callers EXCEPT ![t].at = "_create_tables"]
    /\ UNCHANGED <<closing, served_protocol, probe, limiter>>

\* database.py:14-15: _create_tables returns and get_db returns the _db of
\* that moment.
_create_tables(t) ==
    /\ callers[t].at = "_create_tables"
    /\ callers' = [callers EXCEPT ![t] = [at |-> "done", got |-> _db]]
    /\ UNCHANGED <<_db, opened, closing, served_protocol, probe, limiter>>

\* database.py:18-21, called by the lifespan at shutdown (main.py:23-24),
\* when no request is being served: with a connection, await _db.close().
close_db ==
    /\ ~closing
    /\ \A t \in Tasks : callers[t].at \in {"idle", "done"}
    /\ _db # None
    /\ closing' = TRUE
    /\ UNCHANGED <<_db, callers, opened, served_protocol, probe, limiter>>

\* database.py:22: _db.close() returned, _db = None.  The tasks of the next
\* period have not called yet.
close_db_returns ==
    /\ closing
    /\ _db' = None
    /\ closing' = FALSE
    /\ opened' = {}
    /\ callers' = [t \in Tasks |-> [at |-> "idle", got |-> None]]
    /\ UNCHANGED <<served_protocol, probe, limiter>>

\* The program at import, before the lifespan: no connection is served, no
\* function is called on its own, no request has been dispatched.
DbInit ==
    /\ pc = [p \in Procs |-> "idle"]
    /\ query = [p \in Procs |-> None]
    /\ session = [p \in Procs |-> NewSession(AgentIdOf(p, query[p]))]
    /\ loc = [p \in Procs |-> NoLocals]
    /\ sent = [p \in Procs |-> <<>>]
    /\ inbox = [p \in Procs |-> NoFrame]
    /\ recvd = [p \in Procs |-> 0]
    /\ closed = [p \in Procs |-> FALSE]
    /\ exc = [p \in Procs |-> NoExc]
    /\ sessions = <<>>
    /\ challenge_history = {}
    /\ use_mock_challenges = TRUE
    /\ probe = NoProbe
    /\ _windows = EmptyDict
    /\ monotonic = 0
    /\ returned = <<>>
    /\ NoPool

DbNext ==
    \/ \E t \in Tasks : get_db(t)
    \/ \E t \in Tasks : connect(t)
    \/ \E t \in Tasks : _create_tables(t)
    \/ close_db
    \/ close_db_returns

DbSpec == DbInit /\ [][DbNext]_vars

\* --------------------------------------------------------------- properties

\* The row of the sessions table that verify inserted for connection p.
HasRow(p) == loc[p].session_id \in DOMAIN sessions
Row(p) == sessions[loc[p].session_id]

\* The row as insert_session writes it, before any update.
PreInserted(p) ==
    SessionRow(loc[p].session_id, session[p].agent_id, 0, loc[p].timestamp,
               EmptyDict, FALSE, <<"in_progress">>)

\* Positions in sent[p] of the frames of the kinds named.
ChallengeTypes == {"pow_challenge", "decision_challenge", "env_request"}
ChallengeFrames(p) == {i \in DOMAIN sent[p] : sent[p][i].type \in ChallengeTypes}
ResultFrames(p) == {i \in DOMAIN sent[p] : sent[p][i].type = "result"}
AcceptFrames(p) == {i \in ResultFrames(p) : sent[p][i].verdict = "ACCEPT"}
ErrorFrames(p) == {i \in DOMAIN sent[p] : sent[p][i].type = "error"}

\* The places of verify inside stage k.
StagePcs(k) ==
    CASE k = 1 -> {"s1_send", "s1_recv"}
      [] k = 2 -> {"s2_send", "s2_recv", "s2_persist"}
      [] k = 3 -> {"s3_send", "s3_recv"}
      [] k = 4 -> {"s4_fetch"}

UpTo(k) == [i \in 1..k |-> i]

RowContract(r) ==
    /\ r.passed = 1 => r.reject_reason = None /\ r.stage_reached = 4
    /\ r.passed = 0 => r.reject_reason # None
    /\ r.reject_reason # <<"in_progress">> =>
         /\ r.passed = 1 <=> r.stage_reached = 4
         /\ r.passed = 1 <=> r.reject_reason = None

\* C1: in every reachable state every row of the sessions table has
\* passed = 1 only with reject_reason NULL and stage_reached 4, passed = 0
\* only with a non-NULL reject_reason, and on a row that a terminal update
\* has written (its reason is no longer in_progress) passed = 1,
\* stage_reached = 4 and reject_reason NULL are equivalent.
C1_RowContract == \A i \in DOMAIN sessions : RowContract(sessions[i])

\* An accepted session's row is in the store.
C1_Witness == \E p \in Procs : HasRow(p) /\ Row(p).passed = 1 /\ pc[p] = "done"

\* C2: a frame carrying a token is among the frames sent only when the
\* session's row has been updated to passed = 1; when that update raised, no
\* frame carrying a token is sent on the connection.
C2_TokenAfterUpdate ==
    \A p \in Procs :
        /\ AcceptFrames(p) # {} =>
             HasRow(p) /\ Row(p).passed = 1 /\ Row(p).reject_reason = None
        /\ exc[p].at = "accept_update" => AcceptFrames(p) = {}

\* The ACCEPT frame with its token has been sent.
C2_Witness == \E p \in Procs : AcceptFrames(p) # {} /\ sent[p][Len(sent[p])].token # NoToken

\* C3: verify is inside stage k only when exactly the stages 1..k-1 have
\* returned pass (and recorded it in session.stage_reached) and none has
\* returned a reject; the stage frames go out in stage order; the accept
\* path is entered only with all four stages passed; and once a stage
\* returned a reject verify is on its reject path or has exited.
C3_StageOrder ==
    \A p \in Procs :
        /\ \A k \in 1..4 :
             pc[p] \in StagePcs(k) =>
                /\ loc[p].stages_passed = UpTo(k - 1)
                /\ session[p].stage_reached = k - 1
                /\ loc[p].result.verdict = ""
        /\ pc[p] \in {"accept_update", "accept_send"} \/ loc[p].result.verdict = "ACCEPT" =>
                /\ loc[p].stages_passed = UpTo(4)
                /\ session[p].stage_reached = 4
        /\ loc[p].result.verdict = "REJECT" =>
                pc[p] \in {"reject_send", "reject_update", "raised", "done"}
        /\ \A i, j \in ChallengeFrames(p) : i < j => sent[p][i].stage <= sent[p][j].stage

\* All four stages have passed and verify is about to send ACCEPT.
C3_Witness == \E p \in Procs : pc[p] = "accept_send" /\ Cardinality(ChallengeFrames(p)) = decision_rounds + 2

\* C4: session.stage_reached equals the number of stages that have returned
\* pass so far, and no step decreases it.
C4_StageReached ==
    /\ [](\A p \in Procs : session[p].stage_reached = Len(loc[p].stages_passed))
    /\ [][\A p \in Procs : session'[p].stage_reached >= session[p].stage_reached]_vars

\* Stage 4 rejected after three passes: stage_reached stays 3.
C4_Witness ==
    \E p \in Procs : session[p].stage_reached = 3 /\ loc[p].result.verdict = "REJECT"

\* The row as the reject path's update has to leave it.
Finalized(p) ==
    SessionRow(loc[p].session_id, session[p].agent_id, session[p].stage_reached,
               loc[p].timestamp, session[p].timings, FALSE, loc[p].result.reason)

\* C5: when a stage has rejected and the invocation has exited, the
\* session's row is finalized (passed = 0, the stage's reject reason, the
\* session's stage_reached and timings), also when the send of the REJECT
\* frame failed or the peer had closed the channel.  Only a failure of the
\* final update itself is left aside.
C5_RejectFinalized ==
    \A p \in Procs :
        pc[p] = "done" /\ loc[p].result.verdict = "REJECT" /\ exc[p].at # "reject_update" =>
            HasRow(p) /\ Row(p) = Finalized(p)

\* C6: while verify is in stage 1 the session's row is in the store exactly
\* as pre-inserted (stage_reached 0, passed 0, reject_reason in_progress,
\* timings {}); a stage frame has been sent only when the row exists; and
\* when insert_session raised, no stage frame is sent.
C6_PreInsert ==
    \A p \in Procs :
        /\ pc[p] \in StagePcs(1) => HasRow(p) /\ Row(p) = PreInserted(p)
        /\ ChallengeFrames(p) # {} => HasRow(p) /\ Row(p).agent_id = session[p].agent_id
        /\ exc[p].at = "insert_session" => ChallengeFrames(p) = {} /\ ~HasRow(p)

\* The pow_challenge has gone out and the row is the pre-inserted one.
C6_Witness ==
    \E p \in Procs : /\ pc[p] = "s1_recv" /\ Len(sent[p]) = 1
                     /\ HasRow(p) /\ Row(p).reject_reason = <<"in_progress">>

\* C7: a minted token carries stages_passed = [1,2,3,4] and the session's
\* agent_id, and is minted only after stage 4 passed; every ACCEPT frame
\* carries such a token and stages_passed = [1,2,3,4]; a session in which a
\* stage rejected has no token.
C7_TokenContents ==
    \A p \in Procs :
        /\ loc[p].token # NoToken =>
              /\ loc[p].token.payload.stages_passed = UpTo(4)
              /\ loc[p].token.payload.agent_id = session[p].agent_id
              /\ session[p].stage_reached = 4
        /\ \A i \in AcceptFrames(p) :
              /\ sent[p][i].stages_passed = UpTo(4)
              /\ sent[p][i].token = loc[p].token
              /\ sent[p][i].token.payload.agent_id = session[p].agent_id
        /\ loc[p].result.verdict = "REJECT" => loc[p].token = NoToken

\* A token has been minted for a returning agent and not yet sent.
C7_Witness ==
    \E p \in Procs : /\ loc[p].token # NoToken /\ pc[p] = "accept_update"
                     /\ loc[p].token.payload.agent_id = KnownAgent

\* The decision_challenge frames sent carry round = 1, 2, ... in this order.
RoundsInOrder(p) ==
    \A i \in DOMAIN sent[p] :
        sent[p][i].type = "decision_challenge" =>
            sent[p][i].round =
                Cardinality({j \in 1..i : sent[p][j].type = "decision_challenge"})

TimeoutReasons == {"stage1_timeout", "stage2_timeout_round", "stage3_timeout"}

\* C8 as stated: at most one challenge frame is unanswered; a result frame,
\* like every next challenge frame, is sent only after the response to the
\* previous challenge frame has been received; rounds go 1, 2, ...
C8_ResultAfterResponse ==
    \A p \in Procs :
        /\ Cardinality(ChallengeFrames(p)) <= recvd[p] + 1
        /\ ResultFrames(p) # {} => recvd[p] = Cardinality(ChallengeFrames(p))
        /\ RoundsInOrder(p)

\* C8, amended: at most one challenge frame is unanswered, so a next
\* challenge frame is sent only after the response to the previous one has
\* been read; no challenge frame follows a result frame; the ACCEPT result is
\* sent only with every challenge answered; a REJECT result sent while the
\* last challenge is unanswered is that challenge's timeout; rounds go 1, 2, ...
C8_Serialized ==
    \A p \in Procs :
        /\ Cardinality(ChallengeFrames(p)) <= recvd[p] + 1
        /\ \A i \in ChallengeFrames(p) : 1..i \subseteq ChallengeFrames(p)
        /\ AcceptFrames(p) # {} => recvd[p] = Cardinality(ChallengeFrames(p))
        /\ \A i \in ResultFrames(p) :
              recvd[p] < Cardinality(ChallengeFrames(p)) =>
                  /\ sent[p][i].verdict = "REJECT"
                  /\ sent[p][i].reason[1] \in TimeoutReasons
        /\ RoundsInOrder(p)

\* The last decision round has gone out after the answers to all earlier frames.
C8_Witness ==
    \E p \in Procs : /\ pc[p] = "s2_recv" /\ loc[p].round_num = decision_rounds
                     /\ recvd[p] = decision_rounds
                     /\ Cardinality(ChallengeFrames(p)) = decision_rounds + 1

\* C9: when the peer closed the channel while a stage awaited its answer,
\* no result frame (and no error frame) is sent and the session's row is
\* still the pre-inserted in_progress row, until and after the task ends.
C9_PeerClosed ==
    \A p \in Procs :
        exc[p].type = "WebSocketDisconnect" /\ exc[p].at \in RecvPcs =>
            /\ ResultFrames(p) = {} /\ ErrorFrames(p) = {}
            /\ HasRow(p) /\ Row(p) = PreInserted(p)
            /\ pc[p] \in {"raised", "done"}

\* The task has ended after the peer closed during the env_request wait.
C9_Witness ==
    \E p \in Procs : /\ pc[p] = "done" /\ exc[p].type = "WebSocketDisconnect"
                     /\ exc[p].at = "s3_recv"

C11_Stage1Outcome ==
    [][\A p \in Procs :
         (/\ pc[p] = "s1_recv"
          /\ pc'[p] # "s1_recv"
          /\ exc'[p].type \notin {"JSONDecodeError", "WebSocketDisconnect"})
         => LET msg == inbox[p]
                took == recvd'[p] # recvd[p]
                good == /\ took
                        /\ msg.kind = "object"
                        /\ msg.is_str
                        /\ verify_solution(session[p].nonce, msg.solution, pow_difficulty)
            IN /\ exc'[p] = exc[p]
               /\ IF good
                  THEN pc'[p] = "s2_send" /\ session'[p].stage_reached = 1
                  ELSE /\ pc'[p] = "reject_send"
                       /\ session'[p].stage_reached = 0
                       /\ loc'[p].result.verdict = "REJECT"
                       /\ loc'[p].result.reason =
                            IF took THEN <<"stage1_invalid_solution">> ELSE <<"stage1_timeout">>
      ]_vars

\* The number of leading "0" characters of a digest.
LeadingZeros(digest) ==
    Cardinality({i \in 1..Len(digest) : \A j \in 1..i : digest[j] = "0"})

\* C12: verify_solution(nonce, solution, d) is true exactly when d is at most
\* the number of leading zeros of the digest of nonce + solution; difficulty 0
\* accepts every solution.
C12_PrefixMonotone ==
    (probe.kind = "verify_solution" /\ probe.done)
    => /\ probe.result <=> probe.difficulty <= LeadingZeros(Sha256Hex(probe.nonce, probe.solution))
       /\ probe.difficulty = 0 => probe.result

C12_Witness ==
    /\ probe.kind = "verify_solution"
    /\ probe.done
    /\ probe.result
    /\ probe.difficulty = 3
    /\ LeadingZeros(Sha256Hex(probe.nonce, probe.solution)) = 3

\* The decision_challenge frames sent on connection p, in order.
DecisionFrames(p) == SelectSeq(sent[p], LAMBDA f : f.type = "decision_challenge")

\* Stage 2 has applied its gates: they record the statistics they computed.
GatesApplied(p) == Has(session[p].timings, "stage2_cv")

\* C13: stage 2 never sends more than decision_rounds decision_challenge
\* frames, they carry round = 1, 2, ... and total_rounds = decision_rounds, and
\* when the gates are applied exactly decision_rounds frames have been sent
\* and exactly decision_rounds responses collected, however many are wrong.
C13_AllRounds ==
    \A p \in Procs :
        LET frames == DecisionFrames(p)
        IN /\ Len(frames) <= decision_rounds
           /\ \A i \in DOMAIN frames :
                frames[i].round = i /\ frames[i].total_rounds = decision_rounds
           /\ Len(session[p].challenge_responses) <= Len(frames)
           /\ GatesApplied(p) =>
                /\ Len(frames) = decision_rounds
                /\ Len(session[p].challenge_responses) = decision_rounds
                /\ \A i \in 1..decision_rounds :
                     session[p].challenge_responses[i].round_num = i

C13_Witness ==
    \E p \in Procs :
        /\ GatesApplied(p)
        /\ Len(DecisionFrames(p)) = decision_rounds
        /\ CorrectCount(session[p].challenge_responses) = 0
        /\ loc[p].result.reason = <<"stage2_low_accuracy_", 0, decision_rounds>>

\* Connection p was rejected by stage 2 for a round that got no response in time.
Stage2TimedOut(p) ==
    /\ loc[p].result.verdict = "REJECT"
    /\ Len(loc[p].result.reason) = 2
    /\ loc[p].result.reason[1] = "stage2_timeout_round"

\* C14: a stage 2 timeout reject names the round whose challenge was the last
\* one sent and is still unanswered, timings["stage2"] is the time waited in
\* that round alone, no challenge frame follows, and stage_reached stays 1.
C14_RoundTimeout ==
    \A p \in Procs :
        Stage2TimedOut(p) =>
            LET k == loc[p].result.reason[2]
            IN /\ k \in 1..decision_rounds
               /\ Len(DecisionFrames(p)) = k
               /\ Len(session[p].challenge_responses) = k - 1
               /\ session[p].timings["stage2"] \in S2TimeoutElapsed
               /\ ~GatesApplied(p)
               /\ session[p].stage_reached = 1
               /\ \A i \in ChallengeFrames(p) : sent[p][i].type # "env_request"

C14_Witness ==
    \E p \in Procs :
        /\ Stage2TimedOut(p)
        /\ loc[p].result.reason[2] = 2
        /\ SumSeq(Elapsed(session[p].challenge_responses)) > 0
        /\ pc[p] = "done"

\* The coefficient of variation (population standard deviation over mean) of
\* the times ts is above 4/5:  with n = Len(ts) and S their sum,
\* cv^2 = SUM (n*t - S)^2 / (n * S^2), and cv = 0 when S = 0.
CvAboveFourFifths(ts) ==
    LET n == Len(ts)
        S == SumSeq(ts)
    IN  /\ S > 0
        /\ 25 * SumSeq([i \in DOMAIN ts |-> (n * ts[i] - S) * (n * ts[i] - S)]) > 16 * n * S * S

\* ceil(0.7 * R)
CeilSevenTenths(R) == (7 * R + 9) \div 10

\* C15: with the cv within the threshold the gates pass exactly when the
\* number of correct responses is at least ceil(0.7 * R); a pass sets
\* stage_reached to 2, anything else rejects with stage2_low_accuracy_<count>/<R>.
C15_AccuracyGate ==
    (probe.kind = "gates" /\ probe.done
       /\ ~CvAboveFourFifths(Elapsed(probe.session.challenge_responses)))
    => LET count == CorrectCount(probe.session.challenge_responses)
       IN IF count >= CeilSevenTenths(probe.rounds)
          THEN probe.result = NoResult /\ probe.session.stage_reached = 2
          ELSE /\ probe.result = Reject(<<"stage2_low_accuracy_", count, probe.rounds>>)
               /\ probe.session.stage_reached = 1

C15_Witness ==
    /\ probe.kind = "gates"
    /\ probe.done
    /\ probe.rounds = 3
    /\ CorrectCount(probe.session.challenge_responses) = 2
    /\ probe.result = Reject(<<"stage2_low_accuracy_", 2, 3>>)

\* C16: the gates reject with stage2_timing_variance_cv=<cv> exactly when the
\* cv of the elapsed times is above 0.8; the cv recorded is 0 when the mean is
\* not positive; a cv of exactly 0.8 does not reject.
C16_VarianceGate ==
    (probe.kind = "gates" /\ probe.done)
    => LET ts == Elapsed(probe.session.challenge_responses)
           cv == probe.session.timings["stage2_cv"]
       IN /\ CvAboveFourFifths(ts) <=>
               (/\ probe.result.verdict = "REJECT"
                /\ probe.result.reason = <<"stage2_timing_variance_cv=", cv>>)
          /\ CvAboveFourFifths(ts) => probe.session.stage_reached = 1
          /\ SumSeq(ts) <= 0 => cv = <<"sqrt", 0, 1>>
          /\ SumSeq(ts) > 0 => cv[2] * Len(ts) * SumSeq(ts) * SumSeq(ts) =
                               cv[3] * SumSeq([i \in DOMAIN ts |->
                                   (Len(ts) * ts[i] - SumSeq(ts)) * (Len(ts) * ts[i] - SumSeq(ts))])

\* The times <<1, 9>> have mean 5 and standard deviation 4: cv = 0.8.
C16_Witness ==
    /\ probe.kind = "gates"
    /\ probe.done
    /\ Elapsed(probe.session.challenge_responses) = <<1, 9>>
    /\ probe.result.verdict # "REJECT"

\* What a round's bookkeeping step leaves besides the challenge_history table.
Outcome(n) == [pc |-> n.pc, session |-> n.session, loc |-> n.loc, exc |-> n.exc]

\* C17: whether the store call of a round fails or not, the step after it ends
\* the same way: same place, same session, same locals, same result, and no
\* exception of the store leaves the stage; only challenge_history differs.
C17_PersistenceIndependent ==
    \A p \in Procs :
        pc[p] = "s2_persist" =>
            /\ \A o1, o2 \in StoreOutcomes : Outcome(AfterRound(p, o1)) = Outcome(AfterRound(p, o2))
            /\ AfterRound(p, "OperationalError").challenge_history = challenge_history
            /\ AfterRound(p, "OperationalError").exc.type # "OperationalError"

\* A session reached the gates although none of its rounds was persisted.
C17_Witness ==
    \E p \in Procs :
        /\ GatesApplied(p)
        /\ pc[p] = "s3_send"
        /\ \A row \in challenge_history : row.session_id # loc[p].session_id

\* C18: a row is added to challenge_history only with the session_id of a
\* sessions row that exists before the write, and that row is the one the
\* writing invocation of verify pre-inserted (its id, agent_id and timestamp).
C18_HistoryForeignKey ==
    [][\A row \in challenge_history' \ challenge_history :
         /\ row.session_id \in DOMAIN sessions
         /\ \E p \in Procs :
              /\ pc[p] = "s2_persist"
              /\ loc[p].session_id = row.session_id
              /\ sessions[row.session_id].id = row.session_id
              /\ sessions[row.session_id].agent_id = session[p].agent_id
              /\ sessions[row.session_id].timestamp = loc[p].timestamp
              /\ sessions[row.session_id].reject_reason = <<"in_progress">>
      ]_vars

\* Both rounds of a session are persisted while older sessions rows exist.
C18_Witness ==
    \E p \in Procs :
        /\ Len(sessions) > 1
        /\ Cardinality({row \in challenge_history : row.session_id = loc[p].session_id})
             = decision_rounds

\* C19: the evaluation of an env passes, and sets stage_reached to 3, exactly
\* when at least 4 of the 5 checks score; with 3 or fewer it rejects with the
\* names of the failed checks and stage_reached stays 2.
C19_FourOfFive ==
    (probe.kind = "env" /\ probe.done)
    => /\ probe.ev.passed + Len(probe.ev.failed) = 5
       /\ IF probe.ev.passed >= 4
          THEN probe.result = NoResult /\ probe.session.stage_reached = 3
          ELSE /\ probe.result = Reject(<<"stage3_env_checks_failed=", probe.ev.failed>>)
               /\ probe.session.stage_reached = 2

\* Exactly 4 checks score (only has_tty fails) and the stage passes.
C19_Witness ==
    /\ probe.kind = "env"
    /\ probe.done
    /\ probe.ev.passed = 4
    /\ probe.ev.failed = <<"has_tty">>
    /\ probe.session.stage_reached = 3

\* The names in a sequence of names.
Names(seq) == {seq[i] : i \in DOMAIN seq}

\* C20: the display_set check fails exactly when the env has the field and it
\* is true: a missing field and a false one both score.
C20_DisplayMissingScores ==
    (probe.kind = "env" /\ probe.done)
    => ("display_set" \in Names(probe.ev.failed)
          <=> (Has(probe.env, "display_set") /\ probe.env["display_set"] = <<"bool", TRUE>>))

\* The sessions of connection p's agent_id persisted before its verification:
\* the rows of that agent_id older than the row verify pre-inserted.
PriorSessions(p) ==
    {i \in DOMAIN sessions : /\ sessions[i].agent_id = session[p].agent_id
                             /\ sessions[i].id < loc[p].session_id}

\* Stage 4 has fetched the history / has run the analyzer on it.
Stage4Fetched(p) == Has(session[p].timings, "stage4_fetch_s")
AnalyzerRan(p) == Has(session[p].timings, "stage4")

\* C21: once stage 4 has fetched the history of an agent_id with fewer than 5
\* prior sessions it has passed (stage_reached = 4) without running the
\* analyzer; the analyzer has run only with at least 5 prior sessions.
C21_SkipBelowFive ==
    \A p \in Procs :
        Stage4Fetched(p) =>
            IF Cardinality(PriorSessions(p)) < _MIN_SESSIONS
            THEN ~AnalyzerRan(p) /\ session[p].stage_reached = 4
            ELSE AnalyzerRan(p)

\* C25: with the remote variant selected, a round's generate step whose send
\* does not fail never raises: stage 2 goes on to the round's receive with a
\* challenge that is an object with a prompt, the static one of that round
\* whenever the remote reply was not such an object.
C25_GenerateFallsBack ==
    [][\A p \in Procs :
         (/\ pc[p] = "s2_send"
          /\ pc'[p] # "s2_send"
          /\ ~use_mock_challenges
          /\ exc'[p].type \notin {"WebSocketDisconnect", "RuntimeError"})
         => /\ exc'[p] = exc[p]
            /\ pc'[p] = "s2_recv"
            /\ loc'[p].challenge.kind = "object"
            /\ loc'[p].challenge.has_prompt
            /\ loc'[p].challenge \in
                 {_static_challenge(loc'[p].round_num)} \cup ClaudeReplies(loc'[p].round_num)
            /\ sent'[p][Len(sent'[p])].prompt = loc'[p].challenge.prompt
      ]_vars

\* C28: the adapter's step after verify raised leaves no exception behind and
\* ends the task; for a peer disconnect it sends nothing, for any other
\* exception it sends one error frame carrying the exception's text, unless
\* that send itself fails; an error frame is never sent otherwise.
C28_ErrorFrame ==
    [][\A p \in Procs :
         /\ (pc[p] = "raised" /\ pc'[p] # "raised")
            => /\ pc'[p] = "done"
               /\ exc'[p] = exc[p]
               /\ IF exc[p].type = "WebSocketDisconnect"
                  THEN sent'[p] = sent[p]
                  ELSE \/ sent'[p] = Append(sent[p], [type |-> "error", message |-> exc[p].type])
                       \/ sent'[p] = sent[p] /\ closed'[p]
         /\ (ErrorFrames(p) \ {i \in DOMAIN sent'[p] : sent'[p][i].type = "error"} = {}
             /\ {i \in DOMAIN sent'[p] : sent'[p][i].type = "error"} # ErrorFrames(p))
            => pc[p] = "raised" /\ exc[p].type \notin {"", "WebSocketDisconnect"}
      ]_vars

C28_Witness ==
    \E p \in Procs :
        /\ pc[p] = "done"
        /\ exc[p].type = "AttributeError"
        /\ ErrorFrames(p) = {Len(sent[p])}

\* The row of connection p changes in the step.
RowChanges(p) == HasRow(p) /\ sessions'[loc[p].session_id] # sessions[loc[p].session_id]

\* A result frame with the verdict named is sent to connection p in the step.
ResultSent(p, verdict) ==
    /\ Len(sent'[p]) = Len(sent[p]) + 1
    /\ sent'[p][Len(sent'[p])].type = "result"
    /\ sent'[p][Len(sent'[p])].verdict = verdict

\* C29: the row of a rejected session is updated only after its REJECT frame
\* was sent, and the REJECT frame is sent while the row is as pre-inserted;
\* the ACCEPT frame is sent only after the row was updated to passed, and that
\* update happens with no result frame sent yet.
C29_OppositeOrders ==
    [][\A p \in Procs :
         /\ (RowChanges(p) /\ sessions'[loc[p].session_id].passed = 0)
            => /\ ResultFrames(p) = {Len(sent[p])}
               /\ sent[p][Len(sent[p])].verdict = "REJECT"
               /\ sent'[p] = sent[p]
         /\ ResultSent(p, "REJECT") => Row(p) = PreInserted(p)
         /\ (RowChanges(p) /\ sessions'[loc[p].session_id].passed = 1)
            => ResultFrames(p) = {} /\ sent'[p] = sent[p]
         /\ ResultSent(p, "ACCEPT") => Row(p).passed = 1 /\ sessions' = sessions
      ]_vars

C29_Witness ==
    \E p \in Procs :
        /\ pc[p] = "done"
        /\ HasRow(p)
        /\ Row(p).reject_reason = <<"stage1_invalid_solution">>
        /\ ResultFrames(p) = {Len(sent[p])}

\* C30: when the stage 1 receive ends with a pass or a reject, timings["stage1"]
\* holds the time waited (the deadline's on a timeout), and stage_reached is 1
\* on a pass and 0 on a reject.
C30_Stage1Timing ==
    [][\A p \in Procs :
         (pc[p] = "s1_recv" /\ pc'[p] \in {"s2_send", "reject_send"})
         => /\ Has(session'[p].timings, "stage1")
            /\ session'[p].timings["stage1"] \in
                 (IF recvd'[p] # recvd[p] THEN S1Elapsed ELSE S1TimeoutElapsed)
            /\ session'[p].stage_reached = (IF pc'[p] = "s2_send" THEN 1 ELSE 0)
            /\ pc'[p] = "reject_send" =>
                 loc'[p].result.reason \in {<<"stage1_timeout">>, <<"stage1_invalid_solution">>}
      ]_vars

C30_Witness ==
    \E p \in Procs :
        /\ pc[p] = "reject_send"
        /\ loc[p].result.reason = <<"stage1_timeout">>
        /\ session[p].timings["stage1"] = pow_deadline
        /\ session[p].stage_reached = 0

\* Every row holds timings as json.dumps of a dict wrote them.
WellFormedRows(rows) == \A i \in DOMAIN rows : rows[i].timings.kind = "object"

\* The stage1 timings held by the rows, in row order.
RowStage1Times(rows) ==
    LET with == SelectSeq(rows, LAMBDA r : r.timings.kind = "object" /\ Has(r.timings.val, "stage1"))
    IN  [i \in DOMAIN with |-> with[i].timings.val["stage1"]]

\* Sum of the squared distances of Len(xs) * x from the sum of xs:
\* Len(xs)^3 times the population variance of xs.
ScaledSquares(xs) ==
    SumSeq([i \in DOMAIN xs |-> (Len(xs) * xs[i] - SumSeq(xs)) * (Len(xs) * xs[i] - SumSeq(xs))])

\* population std / mean of ts is above 3/5 (the cv is 0 when the mean is not positive)
CvAboveThreeFifths(ts) ==
    SumSeq(ts) > 0 /\ 25 * ScaledSquares(ts) > 9 * Len(ts) * SumSeq(ts) * SumSeq(ts)

\* at least 10 rows and the population std of their hours of day is below 3
HoursClustered(rows) ==
    LET hours == [i \in DOMAIN rows |-> rows[i].timestamp % 24]
    IN  Len(rows) >= 10 /\ ScaledSquares(hours) < 9 * Len(rows) * Len(rows) * Len(rows)

\* C23: for rows whose timings are as json.dumps wrote them:
\* with at least 3 stage1 timings among the rows the analyzer records
\* their cv and rejects exactly when it is above 0.6 or the hour gate fires,
\* naming the cv when it is above 0.6; with fewer than 3 timings no cv is
\* recorded and the cv gate does not reject.
C23_Stage1CvGate ==
    (probe.kind = "analyzer" /\ probe.done /\ Len(probe.rows) >= 2
       /\ WellFormedRows(probe.rows))
    => LET ts == RowStage1Times(probe.rows)
           r == probe.result
       IN IF Len(ts) >= 3
          THEN /\ Has(r.stats, "stage1_timing_cv")
               /\ ~r.consistent <=> (CvAboveThreeFifths(ts) \/ HoursClustered(probe.rows))
               /\ CvAboveThreeFifths(ts) <=> r.reason[1] = "stage1_timing_cv="
          ELSE /\ ~Has(r.stats, "stage1_timing_cv")
               /\ r.reason[1] # "stage1_timing_cv="

\* Exactly 3 stage1 timings, <<1, 20, 1>>, among 5 rows: gated and rejected.
C23_Witness ==
    /\ probe.kind = "analyzer"
    /\ probe.done
    /\ Len(probe.rows) = 5
    /\ RowStage1Times(probe.rows) = <<1, 20, 1>>
    /\ ~probe.result.consistent

\* C24: for rows whose timings are as json.dumps wrote them:
\* when the stage1 cv gate does not reject, the analyzer rejects exactly
\* when there are at least 10 rows and the std of their hours of day is below
\* 3.0, naming hour_std; with 9 rows or fewer it does not.
C24_HourGate ==
    (probe.kind = "analyzer" /\ probe.done /\ WellFormedRows(probe.rows)
       /\ ~(Len(RowStage1Times(probe.rows)) >= 3 /\ CvAboveThreeFifths(RowStage1Times(probe.rows))))
    => /\ ~probe.result.consistent <=> HoursClustered(probe.rows)
       /\ ~probe.result.consistent => probe.result.reason[1] = "hour_std="
       /\ Len(probe.rows) <= 9 => probe.result.consistent

\* 10 rows an hour apart (hour_std about 2.87) with steady stage1 times: rejected.
C24_Witness ==
    /\ probe.kind = "analyzer"
    /\ probe.done
    /\ Len(probe.rows) = 10
    /\ \A i \in 1..10 : probe.rows[i].timestamp = 100 + i
    /\ probe.result.reason[1] = "hour_std="

Admitted(ip) ==
    SelectSeq(returned, LAMBDA r : r.ip = ip /\ r.status_code # 429)

\* The number of requests of source ip admitted in the window [t, t + w].
AdmittedWithin(ip, t, w) ==
    Len(SelectSeq(Admitted(ip), LAMBDA r : t <= r.at /\ r.at <= t + w))

Sources == { _get_ip(request) : request \in Requests }

\* C27: for every source, every window of length rate_limit_window_s holds
\* at most rate_limit_requests admitted requests; and a request that arrives
\* while its source has rate_limit_requests admitted stamps inside the window
\* is answered 429 with a Retry-After header.
C27_WindowBound ==
    /\ \A ip \in Sources : \A t \in 0..MaxMonotonic :
         AdmittedWithin(ip, t, rate_limit_window_s) <= rate_limit_requests
    /\ \A i \in 1..Len(returned) :
         LET r == returned[i]
             before == SelectSeq(SubSeq(returned, 1, i - 1),
                          LAMBDA q : /\ q.ip = r.ip
                                     /\ q.status_code # 429
                                     /\ r.at - q.at <= rate_limit_window_s)
         IN Len(before) >= rate_limit_requests =>
              /\ r.status_code = 429
              /\ Has(r.headers, "Retry-After")
              /\ r.headers["Retry-After"] = rate_limit_window_s

\* A source is refused at the very end of a full window and admitted again
\* one second later.
C27_Witness ==
    \E i, j \in 1..Len(returned) :
      /\ i < j
      /\ returned[i].ip = returned[j].ip
      /\ returned[i].status_code = 429
      /\ returned[j].status_code = 200
      /\ returned[j].at = returned[i].at + 1
      /\ \E k \in 1..(i - 1) :
           /\ returned[k].ip = returned[i].ip
           /\ returned[k].status_code = 200
           /\ returned[i].at - returned[k].at = rate_limit_window_s

\* What fetch_agent_sessions returns to connection p when only the rows
\* persisted before the connections started and its own row are counted.
FetchedAlone(p) ==
    fetch_agent_sessions(
        SelectSeq(sessions, LAMBDA r : r.id <= Len(ConcHistory) \/ r.id = loc[p].session_id),
        session[p].agent_id)

\* Stage 4 of connection p has returned and verify has not yet updated the row.
Stage4Returned(p) ==
    /\ pc[p] \in {"accept_update", "reject_send"}
    /\ Stage4Fetched(p)

\* C22: the verdict of a session is the one it reaches on its own responses
\* and the rows persisted before it started, whatever a concurrent session
\* of the same agent_id does: once stage 4 has returned, the session is
\* rejected exactly when stage 4 rejects on those rows and its own row.
C22_VerdictIsolated ==
    \A p \in Procs :
        Stage4Returned(p) =>
            \A e \in S4FetchElapsed :
                (loc[p].result.verdict = "REJECT")
                    <=> (Stage4Outcome(session[p], FetchedAlone(p), e).result.verdict = "REJECT")

\* Connection p takes its terminal update step.
TerminalUpdate(p) ==
    /\ pc[p] \in {"reject_update", "accept_update"}
    /\ pc'[p] # pc[p]
    /\ exc'[p] = exc[p]

\* C31: the terminal update of a session changes nothing but stage_reached,
\* timings, passed and reject_reason of the row with the session's own id:
\* that row keeps its id, agent_id and timestamp, every other row is left as
\* it was and no row is added or removed.
C31_UpdateFrame ==
    [][\A p \in Procs :
         TerminalUpdate(p) =>
           /\ DOMAIN sessions' = DOMAIN sessions
           /\ \A i \in DOMAIN sessions :
                IF sessions[i].id = loc[p].session_id
                THEN /\ sessions'[i].id = sessions[i].id
                     /\ sessions'[i].agent_id = sessions[i].agent_id
                     /\ sessions'[i].timestamp = sessions[i].timestamp
                     /\ sessions'[i].agent_id = PreInserted(p).agent_id
                     /\ sessions'[i].timestamp = PreInserted(p).timestamp
                ELSE sessions'[i] = sessions[i]]_vars

\* A rejected session's row is final while the row of the other session of
\* the same agent_id is still as pre-inserted.
C31_Witness ==
    \E p, q \in Procs :
        /\ p # q
        /\ HasRow(p) /\ HasRow(q)
        /\ pc[p] = "done"
        /\ Row(p).reject_reason # <<"in_progress">>
        /\ Row(p).passed = 0
        /\ Row(q) = PreInserted(q)
        /\ Row(q).agent_id = Row(p).agent_id

\* The position of a check in the order stage 3 runs them.
CheckIndex(name) == CHOOSE i \in 1..5 : _CHECKS[i] = name

\* The check named scores 1 on env.
Scored(env, name) ==
    /\ Has(env, name)
    /\ CASE name = "has_tty" -> env[name] = <<"bool", FALSE>>
         [] name = "display_set" -> ~Truthy(env[name])
         [] name = "uptime_seconds" -> IsNumber(env[name]) /\ NumOf(env[name]) >= 0
         [] name = "open_connections" -> IsInt(env[name]) /\ NumOf(env[name]) >= 0
         [] name = "parent_process" ->
               /\ Tag(env[name]) = "str"
               /\ env[name][2] # ""
               /\ Lower(env[name][2]) \notin _HUMAN_SHELLS
         [] OTHER -> FALSE

\* C32: when stage 3 rejects on checks, the reason lists exactly the names
\* of the checks that scored 0, each once and in the order has_tty,
\* display_set, uptime_seconds, open_connections, parent_process; the number
\* of passed checks plus the number of names listed is 5.
C32_FailedNames ==
    (probe.kind = "env" /\ probe.done /\ probe.result.verdict = "REJECT") =>
        LET listed == probe.result.reason[2]
        IN  /\ probe.result.reason[1] = "stage3_env_checks_failed="
            /\ Len(probe.result.reason) = 2
            /\ Names(listed) = {name \in Names(_CHECKS) : ~Scored(probe.env, name)}
            /\ \A i, j \in DOMAIN listed :
                 i < j => CheckIndex(listed[i]) < CheckIndex(listed[j])
            /\ probe.ev.passed + Len(listed) = 5
            /\ probe.ev.passed =
                 Cardinality({name \in Names(_CHECKS) : Scored(probe.env, name)})

\* The env of a person at a terminal: has_tty, display_set and
\* parent_process are listed, two checks pass.
C32_Witness ==
    /\ probe.kind = "env"
    /\ probe.done
    /\ probe.env = MakeEnv([has_tty |-> <<"bool", TRUE>>, display_set |-> <<"bool", TRUE>>,
                            uptime_seconds |-> <<"int", 3600>>,
                            open_connections |-> <<"int", 5>>,
                            parent_process |-> <<"str", "zsh">>])
    /\ probe.result = Reject(<<"stage3_env_checks_failed=",
                               <<"has_tty", "display_set", "parent_process">> >>)
    /\ probe.ev.passed = 2

\* The rows with every timings value that json.dumps did not write replaced
\* by an empty object: what is left once malformed timings are skipped.
WithoutMalformed(rows) ==
    [i \in DOMAIN rows |->
        IF rows[i].timings.kind = "object" THEN rows[i]
        ELSE [rows[i] EXCEPT !.timings = JsonDumps(EmptyDict)]]

\* C33: a row whose timings value is missing or malformed contributes no
\* stage1 timing and causes no error: the analyzer returns the result it
\* computes with that row's timings skipped.
C33_MalformedSkipped ==
    (probe.kind = "analyzer" /\ probe.done) =>
        /\ probe.raised = ""
        /\ probe.result = analyze_sessions(WithoutMalformed(probe.rows))

\* The first character of the answer that is not whitespace, uppercased,
\* is the letter.
FirstLetterIs(answer, letter) ==
    \E i \in DOMAIN answer :
        /\ \A j \in 1..(i - 1) : IsSpace(answer[j])
        /\ ~IsSpace(answer[i])
        /\ UpperChar(answer[i]) = letter

\* C34: for every round, static validation of the round's static challenge
\* accepts an answer exactly when its first character after stripping and
\* uppercasing is the challenge's correct_option letter; so the mock_correct
\* letter is judged correct in every round and an empty answer incorrect.
C34_StaticValidate ==
    (probe.kind = "validate" /\ probe.done) =>
        LET letter == BankCorrect[((probe.round_num - 1) % Len(BankCorrect)) + 1]
        IN  /\ probe.challenge.correct_option = <<letter>>
            /\ probe.result <=> FirstLetterIs(probe.answer, letter)
            /\ probe.answer = <<letter>> => probe.result
            /\ probe.answer = <<>> => ~probe.result

\* In the round after the bank's last entry (the first entry again) a
\* lowercase answer with the correct letter is accepted.
C34_Witness ==
    /\ probe.kind = "validate"
    /\ probe.done
    /\ probe.round_num = Len(BankCorrect) + 1
    /\ probe.answer = <<"a">>
    /\ probe.result

\* Positions in sent[p] of the terminal frames: results and errors.
TerminalFrames(p) == ResultFrames(p) \cup ErrorFrames(p)

\* C35: on every connection at most one terminal frame (result or error) is
\* sent and it is the last frame sent, also when the final update of the
\* session row fails after the verdict was decided.
C35_OneTerminalFrame ==
    \A p \in Procs :
        /\ Cardinality(TerminalFrames(p)) <= 1
        /\ \A i \in TerminalFrames(p) : i = Len(sent[p])

\* Fewer than 7 in 10 of the rounds were answered correctly.
BelowSevenTenths(responses, rounds) == 10 * CorrectCount(responses) < 7 * rounds

\* C36: the gates of stage 2 test the timing variance before the accuracy:
\* when both fail the reason is stage2_timing_variance_cv=<cv>, and
\* stage2_low_accuracy_<count>/<R> is reported only with a cv of at most 0.8;
\* in both reject cases stage2, stage2_mean_s and stage2_cv are recorded and
\* stage_reached stays 1.
C36_VarianceFirst ==
    (probe.kind = "gates" /\ probe.done) =>
        LET rs == probe.session.challenge_responses
            high == CvAboveFourFifths(Elapsed(rs))
            low == BelowSevenTenths(rs, probe.rounds)
            rejected == probe.result.verdict = "REJECT"
        IN  /\ (high /\ low) =>
                 rejected /\ probe.result.reason[1] = "stage2_timing_variance_cv="
            /\ (rejected /\ probe.result.reason[1] = "stage2_low_accuracy_") => ~high /\ low
            /\ rejected <=> (high \/ low)
            /\ rejected =>
                 /\ probe.result.reason[1] \in {"stage2_timing_variance_cv=",
                                                "stage2_low_accuracy_"}
                 /\ {"stage2", "stage2_mean_s", "stage2_cv"} \subseteq
                        DOMAIN probe.session.timings
                 /\ probe.session.timings["stage2"] = SumSeq(Elapsed(rs))
                 /\ probe.session.timings["stage2_mean_s"] = <<SumSeq(Elapsed(rs)), Len(rs)>>
                 /\ probe.session.stage_reached = 1

\* Three rounds, all answered wrongly, after 0, 0 and 9 ticks: both gates
\* fail and the variance is the reason.
C36_Witness ==
    /\ probe.kind = "gates"
    /\ probe.done
    /\ Elapsed(probe.session.challenge_responses) = <<0, 0, 9>>
    /\ CorrectCount(probe.session.challenge_responses) = 0
    /\ probe.result.verdict = "REJECT"
    /\ probe.result.reason[1] = "stage2_timing_variance_cv="
    /\ probe.session.stage_reached = 1

\* Connection p leaves the receive of stage 3.
Stage3Received(p) == pc[p] = "s3_recv" /\ pc'[p] # "s3_recv"

\* The step sets session.env_data to the env of the frame in the inbox.
EnvDataWritten(p) ==
    /\ inbox[p].kind = "object"
    /\ session'[p].env_data = [kind |-> inbox[p].env_kind, val |-> inbox[p].env]

\* The step leaves stage 3 with a reject whose reason starts with `head`.
Stage3Rejects(p, head) ==
    /\ pc'[p] = "reject_send"
    /\ loc'[p].result.verdict = "REJECT"
    /\ loc'[p].result.reason[1] = head

\* C37: stage 3 writes timings["stage3"] and env_data exactly when ws_recv
\* returned a frame within the deadline: a stage3_timeout leaves the
\* session's timings, env_data and stage_reached as they were, and a
\* checks-failed reject has timings["stage3"] and env_data recorded.
C37_Stage3Writes ==
    [][Stage3Received(1) =>
          /\ (Has(session'[1].timings, "stage3") /\ EnvDataWritten(1)) <=> FrameArrived(1)
          /\ Stage3Rejects(1, "stage3_timeout") => session'[1] = session[1]
          /\ Stage3Rejects(1, "stage3_env_checks_failed=") =>
                /\ Has(session'[1].timings, "stage3")
                /\ EnvDataWritten(1)
                /\ session'[1].stage_reached = session[1].stage_reached]_vars

\* The connections the get_db calls of this period have returned.
Received == { callers[t].got : t \in { u \in Tasks : callers[u].at = "done" } }

\* C38: between two close_db calls at most one connection is opened and
\* every get_db call returns that connection, however the get_db calls that
\* start without a connection interleave.
C38_OneConnection ==
    /\ Cardinality(opened) <= 1
    /\ Cardinality(Received) <= 1
    /\ Received \subseteq opened

====
